---- MODULE Spec2Model ----
(***************************************************************************)
(* A model of the burnafter daemon (internal/server): the metadata table,  *)
(* the storage backend, the Store / Get / Ping handlers, the expiration    *)
(* sweeper, the inactivity timer and the shutdown sequence.                *)
(*                                                                         *)
(* Time is counted in whole seconds.  A handler is cut at the points where *)
(* it releases the metadata lock or calls the storage backend, so that the *)
(* interleavings the Go scheduler can produce are the interleavings of the *)
(* actions below.                                                          *)
(***************************************************************************)
EXTENDS Integers, Sequences, FiniteSets, TLC

\* ---------------------------------------------------------------- bounds
\* The clock stops advancing at MaxTime.
MaxTime == 3
\* Total number of RPCs the clients issue in one behaviour.
MaxRequests == 4

\* ------------------------------------------------------- input universes
Handlers == {"h1", "h2"}
Names == {"k1", "k2"}
Salts == {1, 2}

\* A client is the connection a request arrives on (the peer record extracted
\* at handshake, see ServerHandshake) and the nonce built into the client.
\*   PID 1 runs executable E1, PID 2 runs E2, PID 3 runs an executable that
\*   cannot be read, PID 0 is what a failed credential probe leaves behind.
ClientE1 == [auth |-> TRUE, PID |-> 1, nonce |-> "n1"]

ClientE1n2 == [auth |-> TRUE, PID |-> 1, nonce |-> "n2"]

ClientE2 == [auth |-> TRUE, PID |-> 2, nonce |-> "n1"]

ClientUnreadable == [auth |-> TRUE, PID |-> 3, nonce |-> "n1"]

ClientNoPid == [auth |-> TRUE, PID |-> 0, nonce |-> "n1"]

ClientNoPeer == [auth |-> FALSE, PID |-> 0, nonce |-> "n1"]

\* (ttl_seconds, absolute_expiration_seconds) of a Store request
Lifetime(ttl, abs) == [ttlSeconds |-> ttl, absSeconds |-> abs]

\* The workloads explored.  Secrets are byte strings; <<1, 1>> is longer than
\* the configured maximum secret size.
\*   callers   one handler at a time, every kind of caller
\*   payloads  one handler at a time, every secret, both salts, both backends
\*   lifetimes one handler at a time, every lifetime, two executables
\*   parallel  two handlers in parallel, two names
\*   idle      the inactivity timer is armed
CallersCast ==
  [handlers |-> {"h1"},
   clients |-> {ClientE1, ClientE1n2, ClientE2, ClientUnreadable, ClientNoPid, ClientNoPeer},
   names |-> Names, secrets |-> {<<1>>}, lifetimes |-> {Lifetime(1, 0)},
   salts |-> {1}, timeouts |-> {0}, backends |-> {"memory"}]

PayloadsCast ==
  [handlers |-> {"h1"},
   clients |-> {ClientE1},
   names |-> Names, secrets |-> {<<>>, <<1>>, <<1, 1>>}, lifetimes |-> {Lifetime(1, 0)},
   salts |-> Salts, timeouts |-> {0}, backends |-> {"keyring", "memory"}]

LifetimesCast ==
  [handlers |-> {"h1"},
   clients |-> {ClientE1, ClientE2},
   names |-> {"k1"}, secrets |-> {<<1>>},
   lifetimes |-> {Lifetime(0, 0), Lifetime(1, 0), Lifetime(1, 2)},
   salts |-> {1}, timeouts |-> {0}, backends |-> {"memory"}]

ParallelCast ==
  [handlers |-> Handlers,
   clients |-> {ClientE1},
   names |-> Names, secrets |-> {<<1>>}, lifetimes |-> {Lifetime(1, 0)},
   salts |-> {1}, timeouts |-> {0}, backends |-> {"keyring"}]

IdleCast ==
  [handlers |-> Handlers,
   clients |-> {ClientE1},
   names |-> {"k1"}, secrets |-> {<<1>>}, lifetimes |-> {Lifetime(1, 0)},
   salts |-> {1}, timeouts |-> {2}, backends |-> {"memory"}]

Casts == {CallersCast, PayloadsCast, LifetimesCast, ParallelCast, IdleCast}

\* the option sets a daemon can be started with
OptionSets(timeouts) ==
  { [MaxSecrets |-> 1, MaxSecretSize |-> 1, DefaultTTL |-> 2, InactivityTimeout |-> it] :
        it \in timeouts }

\* ------------------------------------------------------------- helpers
\* GetPeerAuthInfo: fails when the context carries no peerAuthInfo
GetPeerAuthInfo(peer) == [err |-> ~peer.auth, PID |-> peer.PID]

\* variant: a PID that resolves to no readable executable yields an empty hash
GetClientBinaryInfo_NoError(pid) ==
  CASE pid = 1 -> [err |-> FALSE, hash |-> "E1"]
    [] pid = 2 -> [err |-> FALSE, hash |-> "E2"]
    [] OTHER   -> [err |-> FALSE, hash |-> ""]

\* GetClientBinaryInfo: readlink /proc/<pid>/exe, then hash the file
GetClientBinaryInfo(pid) ==
  CASE pid = 1 -> [err |-> FALSE, hash |-> "E1"]
    [] pid = 2 -> [err |-> FALSE, hash |-> "E2"]
    [] OTHER   -> [err |-> TRUE, hash |-> ""]

\* common.DeriveKey: PBKDF2 over nonce || hash || session || name with the salt
DeriveKey(hash, nonce, sid, name, salt) == <<nonce, hash, sid, name, salt>>

\* common.Encrypt / common.Decrypt: AES-256-GCM; decryption authenticates the key
Encrypt(pt, key) == [key |-> key, pt |-> pt]

Decrypt(ct, key) ==
  IF ct.key = key THEN [err |-> FALSE, pt |-> ct.pt] ELSE [err |-> TRUE, pt |-> <<>>]

RECURSIVE PutBytes(_, _)
\* the n low bytes of v, the high byte first
PutBytes(v, n) ==
  IF n = 0 THEN <<>> ELSE Append(PutBytes(v \div 256, n - 1), v % 256)

\* a count of 2^24 or more: later than every time the clock shows
Beyond == 16777216

\* ---------------------------------------------- int64 and time.Duration
\* the bytes of an int64
Int64Size == 8

\* request values larger than the integers of the checker, as the bytes of
\* their int64, high byte first: 2^55 and 9223372037.  In a request the number
\* Beyond + k stands for WideSeconds[k].
WideSeconds == << <<0, 128, 0, 0, 0, 0, 0, 0>>, <<0, 0, 0, 2, 37, 193, 125, 5>> >>

\* the int64 of a request value, two's complement, high byte first
Int64(n) ==
  IF n > Beyond THEN WideSeconds[n - Beyond]
  ELSE IF n >= 0 THEN PutBytes(n, Int64Size)
  ELSE [k \in 1..Int64Size |-> 255 - PutBytes((-n) - 1, Int64Size)[k]]

\* time.Second: 10^9 nanoseconds
Second == <<0, 0, 0, 0, 59, 154, 202, 0>>

\* the products of bytes that meet in the byte of weight 256^p
RECURSIVE Column(_, _, _, _)
Column(a, b, p, i) ==
  IF i > p THEN 0
  ELSE a[Int64Size - i] * b[Int64Size - (p - i)] + Column(a, b, p, i + 1)

\* what the lower bytes carry into the byte of weight 256^p
RECURSIVE Carry(_, _, _)
Carry(a, b, p) ==
  IF p = 0 THEN 0 ELSE (Column(a, b, p - 1, 0) + Carry(a, b, p - 1)) \div 256

\* int64 multiplication: the product wraps around at 2^64
Mul64(a, b) ==
  [k \in 1..Int64Size |-> (Column(a, b, Int64Size - k, 0) + Carry(a, b, Int64Size - k)) % 256]

\* the int64 is negative / is less than or equal to another
Negative64(a) == a[1] >= 128

LessEq64(a, b) ==
  IF Negative64(a) # Negative64(b) THEN Negative64(a)
  ELSE \/ a = b
       \/ \E k \in 1..Int64Size : a[k] < b[k] /\ \A j \in 1..(k - 1) : a[j] = b[j]

\* the durations the clock can tell apart: whole seconds around its range
Horizon == MaxTime + 3

\* time.Duration(n) * time.Second in nanoseconds
Duration(n) == Mul64(Int64(n), Second)

\* the whole seconds of a duration: exact within the horizon, Beyond (or
\* -Beyond) outside it
WholeSeconds(d) ==
  LET fits == {s \in (-Horizon)..(Horizon + 1) : LessEq64(Duration(s), d)}
  IN  IF fits = {} THEN -Beyond
      ELSE IF Horizon + 1 \in fits THEN Beyond
      ELSE CHOOSE s \in fits : \A o \in fits : o <= s

\* the request values of the workloads, tabulated
Durations ==
  [n \in ((-Horizon)..Horizon) \cup {Beyond + k : k \in DOMAIN WideSeconds} |->
     [ns |-> Duration(n), seconds |-> WholeSeconds(Duration(n))]]

\* time.Duration(seconds) * time.Second, in whole seconds (the model's unit)
Seconds(n) ==
  IF n \in DOMAIN Durations THEN Durations[n].seconds ELSE WholeSeconds(Duration(n))

\* the product time.Duration(seconds) * time.Second is 0
ZeroDuration(n) ==
  LET ns == IF n \in DOMAIN Durations THEN Durations[n].ns ELSE Duration(n)
  IN  \A k \in 1..Int64Size : ns[k] = 0

\* Store: the secret is larger than options.MaxSecretSize
SizeExceeded(secret, maxSecretSize) == Len(secret) > maxSecretSize

\* variant: the limit applied to every name
LimitReached_AnyName(exists, currentCount, maxSecrets) == currentCount >= maxSecrets

\* Store: the name is new and the table is full
LimitReached(exists, currentCount, maxSecrets) == ~exists /\ currentCount >= maxSecrets

\* Store: ttl_seconds = 0 selects the server default
InactivityTTL(ttlSeconds, defaultTTL) ==
  IF ZeroDuration(ttlSeconds) THEN defaultTTL ELSE Seconds(ttlSeconds)

\* Store: the optional absolute deadline, counted from the moment of the Store
AbsoluteExpiresAt(absSeconds, t) ==
  IF absSeconds > 0 THEN {t + Seconds(absSeconds)} ELSE {}

\* time.Since(m.LastAccessed) > m.InactivityTTL
InactivityExpired(m, t) == t - m.LastAccessed > m.InactivityTTL

\* variant: the absolute deadline is never looked at
AbsoluteExpired_Never(m, t) == FALSE

\* m.AbsoluteExpiresAt != nil && now.After(*m.AbsoluteExpiresAt)
AbsoluteExpired(m, t) == \E d \in m.AbsoluteExpiresAt : t > d

\* variant: the binary hash is never compared
HashMismatch_Never(stored, clientHash) == FALSE

\* Get: the stored binary hash differs from the caller's
HashMismatch(stored, clientHash) == stored.ClientBinaryHash # clientHash

\* map insert / delete on the Go maps
MapPut(m, k, v) == [x \in (DOMAIN m) \cup {k} |-> IF x = k THEN v ELSE m[x]]

MapDel(m, k) == [x \in (DOMAIN m) \ {k} |-> m[x]]

EmptyMap == [x \in {} |-> 0]

\* ---------------------------------------------------------------- state
VARIABLES
  cast,         \* the workload: who issues which requests
  now,          \* wall clock, seconds
  state,        \* daemon life cycle: Starting, Serving, Draining, Stopped, Killed
  socketFile,   \* TRUE iff a file exists at options.SocketPath
  options,      \* Server.options
  backend,      \* which secrets.Storage NewServer selected: "keyring" | "memory"
  sessionID,    \* Server.sessionID
  secrets,      \* Server.secrets: name -> Metadata
  storage,      \* Server.storage: name -> Payload
  timer,        \* Server.inactivityTimer
  timerPc,      \* the AfterFunc callback: "idle" | "fired" | "stopping" | "done"
  sweeperPc,    \* cleanupExpiredSecrets: "off" | "wait" | "stopping" | "done"
  shutdownChan, \* "open" | "closed"
  panicked,     \* TRUE once a goroutine panicked (close of closed channel)
  pc,           \* per handler: where the handler stands
  loc,          \* per handler: its local variables
  resp,         \* what the step just taken reported: the response an RPC
                \* returned, or the sweeper's log of a removal; NoResp if nothing
  nreq,         \* number of RPCs issued so far
  gh,           \* history: per name in the table, the Store that installed it
  writer,       \* history: per name, the handler whose payload write was the last
  \* --- the client side: facade instances, the launcher, the daemons they
  \* --- spawn, the socket path and the fallback files
  scene,        \* the client workload: instances, their options, what they call
  unixNow,      \* the clients' wall clock, Unix seconds
  sockPath,     \* what answers at SocketPath: "none" | a daemon | "foreign"
  procs,        \* per spawned daemon: life cycle, session id, table
  facade,       \* per Client instance: position in Connect, checks done,
                \* c.client, the transport of c.conn, serverStartFailed
  files,        \* the fallback files in the temp directory: path -> content
  cresp,        \* what the facade call just made returned; NoCall if none
  ncalls,       \* number of Store/Get/Delete calls made so far
  origin,       \* history: per place a secret lives in, the Store that put it there
  \* --- the keyring backend's package-level state
  worker,       \* workerOnce, workerReqChan, errWorkerInit, the worker goroutine,
                \* the process keyring, and the goroutines that use the backend
  \* --- Client.startServer
  launch        \* per instance the position in startServer and what it has
                \* tried; the temporary server images on disk

\* the client side; the keyring worker is at rest in the daemon and the
\* client part alike, so both tuples hold it
cvars == <<scene, unixNow, sockPath, procs, facade, files, cresp, ncalls, origin, worker,
           launch>>

\* the daemon of the first part
dvars == <<cast, now, state, socketFile, options, backend, sessionID, secrets, storage,
           timer, timerPc, sweeperPc, shutdownChan, panicked, pc, loc, resp, nreq, gh,
           writer, worker, launch>>

\* everything but the keyring worker
rest == <<cast, now, state, socketFile, options, backend, sessionID, secrets, storage,
          timer, timerPc, sweeperPc, shutdownChan, panicked, pc, loc, resp, nreq, gh,
          writer, scene, unixNow, sockPath, procs, facade, files, cresp, ncalls, origin,
          launch>>

vars == <<cast, now, state, socketFile, options, backend, sessionID, secrets, storage,
          timer, timerPc, sweeperPc, shutdownChan, panicked, pc, loc, resp, nreq, gh,
          writer, scene, unixNow, sockPath, procs, facade, files, cresp, ncalls, origin,
          worker, launch>>

Nil == [armed |-> FALSE, at |-> -1, exists |-> FALSE]

NoLoc == [op |-> "none"]

NoResp == [op |-> "none", name |-> "", kind |-> "none", secret |-> <<>>]

NoWriter == [n \in Names |-> "none"]

\* the facade instances and the daemon processes they may spawn
Instances == {"a", "b"}
Daemons == {"d1", "d2"}

\* the rounds of the wait loop in Client.Connect
ConnectAttempts == 10

\* bound on the facade calls of a behaviour
MaxCalls == 3

NoCall == [who |-> "", op |-> "none", name |-> "", via |-> "none", kind |-> "none",
           secret |-> <<>>]

\* no client is around
\* the goroutines that call into the keyring backend
Goroutines == {"g1", "g2"}

NoOp == [by |-> "", op |-> "none", id |-> "", err |-> FALSE, payload |-> {}]

\* the package-level variables of the keyring backend before the first
\* NewKeyringStorage
NoWorker ==
  [once |-> [done |-> FALSE, m |-> "free"], reqChan |-> "nil", initDone |-> "empty",
   err |-> "nil", thread |-> "none", started |-> 0, ring |-> EmptyMap,
   callers |-> [g \in Goroutines |-> [pc |-> "idle", path |-> "none", req |-> NoOp]],
   senders |-> <<>>, handling |-> "none", respChan |-> [g \in Goroutines |-> {}],
   replies |-> [g \in Goroutines |-> 0],
   last |-> NoOp, bound |-> EmptyMap, nops |-> 0, served |-> 0]

\* startServer has not been called; no temporary server image is on disk
NoLaunch ==
  [of |-> [i \in Instances |->
             [pc |-> "idle", debug |-> FALSE, memFile |-> "nil", tempServerPath |-> 0,
              extracted |-> FALSE, tried |-> <<>>, ret |-> "none", cleaner |-> "none"]],
   tmp |-> {}, made |-> 0]

ClientIdle ==
  /\ worker = NoWorker
  /\ launch = NoLaunch
  /\ scene = [instances |-> {}]
  /\ unixNow = 0
  /\ sockPath = "none"
  /\ procs = [d \in Daemons |-> [st |-> "none", tbl |-> EmptyMap]]
  /\ facade = [i \in Instances |-> [pc |-> "new"]]
  /\ files = EmptyMap
  /\ cresp = NoCall
  /\ ncalls = 0
  /\ origin = EmptyMap

\* ----------------------------------------------------------------- Init
\* NewServer: empty table, fresh session id, storage backend chosen once
Init ==
  /\ cast \in Casts
  /\ now = 0
  /\ state = "Starting"
  /\ socketFile = FALSE
  /\ options \in OptionSets(cast.timeouts)
  /\ backend \in cast.backends
  /\ sessionID = "sid1"
  /\ secrets = EmptyMap
  /\ storage = EmptyMap
  /\ timer = Nil
  /\ timerPc = "idle"
  /\ sweeperPc = "off"
  /\ shutdownChan = "open"
  /\ panicked = FALSE
  /\ pc = [h \in Handlers |-> "idle"]
  /\ loc = [h \in Handlers |-> NoLoc]
  /\ resp = NoResp
  /\ nreq = 0
  /\ gh = EmptyMap
  /\ writer = NoWriter
  /\ ClientIdle

\* ------------------------------------------------------ storage backend
\* variant: Store keeps the payload an id is already bound to
StorageStore_KeepFirst(st, id, payload) ==
  IF id \in DOMAIN st THEN st ELSE MapPut(st, id, payload)

\* secrets.Storage.Store: insert or replace the payload bound to id
StorageStore(st, id, payload) == MapPut(st, id, payload)

\* KeyringStorage.Store failing in AddKey: the key that existed was unlinked first
StorageStoreFailed(st, id) == MapDel(st, id)

\* secrets.Storage.Get: the payload, or an error when id is not bound
StorageGet(st, id) ==
  IF id \in DOMAIN st THEN [err |-> FALSE, payload |-> {st[id]}]
  ELSE [err |-> TRUE, payload |-> {}]

\* variant: Delete leaves the binding in place
StorageDelete_Noop(st, id) == st

\* secrets.Storage.Delete: remove the binding, absent is not an error
StorageDelete(st, id) == MapDel(st, id)

\* ------------------------------------------------------- small predicates
\* variant: updateActivity that leaves the timer alone
UpdateActivity_NoReset == timer

\* updateActivity: re-arm the inactivity timer when there is one
UpdateActivity ==
  IF timer.exists
    THEN [armed |-> TRUE, at |-> now + options.InactivityTimeout, exists |-> TRUE]
    ELSE timer

AllIdle == \A h \in Handlers : pc[h] = "idle"

\* the handler a new RPC runs on: handlers are interchangeable, the first idle
\* one of the workload is taken
Free(h) ==
  /\ h \in cast.handlers
  /\ pc[h] = "idle"
  /\ h = "h2" => pc["h1"] # "idle"

\* the response a handler returns; the handler becomes idle
Return(h, r) ==
  /\ resp' = r
  /\ pc' = [pc EXCEPT ![h] = "idle"]
  /\ loc' = [loc EXCEPT ![h] = NoLoc]

Response(op, name, kind, secret) ==
  [op |-> op, name |-> name, kind |-> kind, secret |-> secret]

\* ------------------------------------------------------------ life cycle
\* Server.Run: unlink a stale socket, listen, chmod, start the sweeper,
\* arm the inactivity timer, serve
Run ==
  /\ state = "Starting"
  /\ state' = "Serving"
  /\ socketFile' = TRUE
  /\ sweeperPc' = "wait"
  /\ timer' = IF options.InactivityTimeout > 0
                THEN [armed |-> TRUE, at |-> now + options.InactivityTimeout, exists |-> TRUE]
                ELSE Nil
  /\ resp' = NoResp
  /\ UNCHANGED <<cvars, cast, now, options, backend, sessionID, secrets, storage, timerPc,
                 shutdownChan, panicked, pc, loc, nreq, gh, writer>>

Tick ==
  /\ state \in {"Serving", "Draining"}
  /\ now < MaxTime
  /\ now' = now + 1
  /\ resp' = NoResp
  /\ UNCHANGED <<cvars, cast, state, socketFile, options, backend, sessionID, secrets, storage,
                 timer, timerPc, sweeperPc, shutdownChan, panicked, pc, loc, nreq, gh,
                 writer>>

\* ---------------------------------------------------------------- Store
\* variant: an error return that drops the entry of the name
Reject_Dropping(h, name, kind) ==
  /\ Return(h, Response("Store", name, kind, <<>>))
  /\ secrets' = MapDel(secrets, name)
  /\ storage' = MapDel(storage, name)

\* Server.Store: an error return taken before anything was written
Reject(h, name, kind) ==
  /\ Return(h, Response("Store", name, kind, <<>>))
  /\ UNCHANGED <<secrets, storage>>

\* Server.Store up to the release of the read lock: updateActivity, peer
\* credentials, client binary, size limit, count limit
StoreRequest(h, peer, name, secret, ttlSeconds, absSeconds, nonce) ==
  /\ state = "Serving"
  /\ Free(h)
  /\ nreq < MaxRequests
  /\ nreq' = nreq + 1
  /\ timer' = UpdateActivity
  /\ LET authInfo == GetPeerAuthInfo(peer)
         bin == GetClientBinaryInfo(authInfo.PID)
         exists == name \in DOMAIN secrets
         currentCount == Cardinality(DOMAIN secrets)
     IN  IF authInfo.err THEN Reject(h, name, "credentials")
         ELSE IF bin.err THEN Reject(h, name, "binary")
         ELSE IF SizeExceeded(secret, options.MaxSecretSize)
           THEN Reject(h, name, "size-exceeded")
         ELSE IF LimitReached(exists, currentCount, options.MaxSecrets)
           THEN Reject(h, name, "limit-exceeded")
         ELSE /\ UNCHANGED <<secrets, storage>>
              /\ pc' = [pc EXCEPT ![h] = "store_backend"]
              /\ loc' = [loc EXCEPT ![h] =
                           [op |-> "Store", name |-> name, secret |-> secret,
                            ttlSeconds |-> ttlSeconds, absSeconds |-> absSeconds,
                            nonce |-> nonce, hash |-> bin.hash]]
              /\ resp' = NoResp
  /\ UNCHANGED <<cvars, cast, now, state, socketFile, options, backend, sessionID, timerPc,
                 sweeperPc, shutdownChan, panicked, gh, writer>>

\* Server.Store from the salt to the storage backend call
StoreBackend(h) ==
  /\ pc[h] = "store_backend"
  /\ state \in {"Serving", "Draining"}
  /\ LET l == loc[h]
         ttl == InactivityTTL(l.ttlSeconds, options.DefaultTTL)
         absoluteExpiresAt == AbsoluteExpiresAt(l.absSeconds, now)
         touched == IF l.name \in DOMAIN gh THEN [gh EXCEPT ![l.name].clean = FALSE] ELSE gh
     IN  \E salt \in cast.salts :
           LET key == DeriveKey(l.hash, l.nonce, sessionID, l.name, salt)
               stored == [EncryptedData |-> Encrypt(l.secret, key), Salt |-> salt,
                          ClientBinaryHash |-> l.hash]
           IN  \/ /\ storage' = StorageStore(storage, l.name, stored)
                  /\ pc' = [pc EXCEPT ![h] = "store_meta"]
                  /\ loc' = [loc EXCEPT ![h] =
                               [op |-> "Store", name |-> l.name, secret |-> l.secret,
                                nonce |-> l.nonce, hash |-> l.hash, ttl |-> ttl,
                                absoluteExpiresAt |-> absoluteExpiresAt]]
                  /\ resp' = NoResp
                  /\ writer' = [writer EXCEPT ![l.name] = h]
                  /\ gh' = touched
               \/ /\ backend = "keyring"
                  /\ \A other \in cast.salts : salt <= other
                  /\ storage' = StorageStoreFailed(storage, l.name)
                  /\ Return(h, Response("Store", l.name, "storage", <<>>))
                  /\ writer' = [writer EXCEPT ![l.name] = "none"]
                  /\ gh' = touched
  /\ UNCHANGED <<cvars, cast, now, state, socketFile, options, backend, sessionID, secrets,
                 timer, timerPc, sweeperPc, shutdownChan, panicked, nreq>>

\* Server.Store: the metadata entry is installed under the write lock
StoreMeta(h) ==
  /\ pc[h] = "store_meta"
  /\ state \in {"Serving", "Draining"}
  /\ LET l == loc[h]
     IN  /\ secrets' = MapPut(secrets, l.name,
                         [InactivityTTL |-> l.ttl, AbsoluteExpiresAt |-> l.absoluteExpiresAt,
                          LastAccessed |-> now])
         /\ gh' = MapPut(gh, l.name,
                         [at |-> now, ttl |-> l.ttl, dl |-> l.absoluteExpiresAt,
                          hash |-> l.hash, nonce |-> l.nonce, pt |-> l.secret,
                          reads |-> 0, clean |-> writer[l.name] = h,
                          early |-> {o \in Handlers : /\ pc[o] = "get_fetch"
                                                      /\ loc[o].name = l.name}])
         /\ writer' = [writer EXCEPT ![l.name] = "none"]
         /\ Return(h, Response("Store", l.name, "ok", <<>>))
  /\ UNCHANGED <<cvars, cast, now, state, socketFile, options, backend, sessionID, storage,
                 timer, timerPc, sweeperPc, shutdownChan, panicked, nreq>>

\* ------------------------------------------------------------------ Get
\* Server.Get up to the release of the metadata lock: updateActivity, peer
\* credentials, client binary, lookup, the two expiry checks, LastAccessed
GetRequest(h, peer, name, nonce) ==
  /\ state = "Serving"
  /\ Free(h)
  /\ nreq < MaxRequests
  /\ nreq' = nreq + 1
  /\ timer' = UpdateActivity
  /\ LET authInfo == GetPeerAuthInfo(peer)
         bin == GetClientBinaryInfo(authInfo.PID)
         fail(kind) ==
           /\ Return(h, Response("Get", name, kind, <<>>))
           /\ UNCHANGED <<secrets, gh>>
         evict(kind) ==
           /\ secrets' = MapDel(secrets, name)
           /\ gh' = MapDel(gh, name)
           /\ pc' = [pc EXCEPT ![h] = "get_delete"]
           /\ loc' = [loc EXCEPT ![h] =
                        [op |-> "Get", name |-> name, nonce |-> nonce, hash |-> bin.hash,
                         kind |-> kind, t0 |-> now,
                         reads |-> IF name \in DOMAIN gh THEN gh[name].reads ELSE 0]]
           /\ resp' = NoResp
     IN  IF authInfo.err THEN fail("credentials")
         ELSE IF bin.err THEN fail("binary")
         ELSE IF name \notin DOMAIN secrets THEN fail("not-found")
         ELSE IF InactivityExpired(secrets[name], now) THEN evict("expired-inactivity")
         ELSE IF AbsoluteExpired(secrets[name], now) THEN evict("expired-absolute")
         ELSE /\ secrets' = [secrets EXCEPT ![name].LastAccessed = now]
              /\ gh' = gh
              /\ pc' = [pc EXCEPT ![h] = "get_fetch"]
              /\ loc' = [loc EXCEPT ![h] =
                           [op |-> "Get", name |-> name, nonce |-> nonce, hash |-> bin.hash,
                            kind |-> "pending", t0 |-> now, reads |-> 0]]
              /\ resp' = NoResp
  /\ UNCHANGED <<cvars, cast, now, state, socketFile, options, backend, sessionID, storage,
                 timerPc, sweeperPc, shutdownChan, panicked, writer>>

\* Server.Get on an expired entry: the payload is deleted after the lock is released
GetDelete(h) ==
  /\ pc[h] = "get_delete"
  /\ state \in {"Serving", "Draining"}
  /\ LET l == loc[h]
     IN  /\ storage' = StorageDelete(storage, l.name)
         /\ Return(h, Response("Get", l.name, l.kind, <<>>))
  /\ UNCHANGED <<cvars, cast, now, state, socketFile, options, backend, sessionID, secrets,
                 timer, timerPc, sweeperPc, shutdownChan, panicked, nreq, gh, writer>>

\* Server.Get after the lock: fetch the payload, compare the binary hash,
\* derive the key with the stored salt, decrypt
GetFetch(h) ==
  /\ pc[h] = "get_fetch"
  /\ state \in {"Serving", "Draining"}
  /\ LET l == loc[h]
         got == StorageGet(storage, l.name)
         reply(kind, secret) == Return(h, Response("Get", l.name, kind, secret))
         done == [n \in DOMAIN gh |-> [gh[n] EXCEPT !.early = @ \ {h}]]
     IN  IF got.err THEN reply("storage", <<>>) /\ gh' = done
         ELSE LET stored == CHOOSE p \in got.payload : TRUE
                  key == DeriveKey(l.hash, l.nonce, sessionID, l.name, stored.Salt)
                  dec == Decrypt(stored.EncryptedData, key)
              IN  IF HashMismatch(stored, l.hash)
                    THEN reply("unauthorized", <<>>) /\ gh' = done
                  ELSE IF dec.err THEN reply("crypto", <<>>) /\ gh' = done
                  ELSE /\ reply("ok", dec.pt)
                       /\ gh' = IF l.name \in DOMAIN gh
                                  THEN [done EXCEPT ![l.name].at = l.t0,
                                                    ![l.name].reads = 1]
                                  ELSE done
  /\ UNCHANGED <<cvars, cast, now, state, socketFile, options, backend, sessionID, secrets,
                 storage, timer, timerPc, sweeperPc, shutdownChan, panicked, nreq, writer>>

\* ----------------------------------------------------------------- Ping
Ping(h) ==
  /\ state = "Serving"
  /\ Free(h)
  /\ nreq < MaxRequests
  /\ nreq' = nreq + 1
  /\ timer' = UpdateActivity
  /\ resp' = Response("Ping", "", "alive", <<>>)
  /\ UNCHANGED <<cvars, cast, now, state, socketFile, options, backend, sessionID, secrets,
                 storage, timerPc, sweeperPc, shutdownChan, panicked, pc, loc, gh, writer>>

\* -------------------------------------------------------------- sweeper
\* the test one pass of cleanupExpiredSecrets applies to an entry
Expired(m, t) == InactivityExpired(m, t) \/ AbsoluteExpired(m, t)

\* variant: a pass that only looks at the inactivity TTL
SweepVictims_InactivityOnly(tbl, t) == {n \in DOMAIN tbl : InactivityExpired(tbl[n], t)}

\* the entries one pass removes
SweepVictims(tbl, t) == {n \in DOMAIN tbl : Expired(tbl[n], t)}

\* storage.Delete for every name of a set
RECURSIVE DeleteAll(_, _)
DeleteAll(st, ids) ==
  IF ids = {} THEN st
  ELSE LET id == CHOOSE x \in ids : TRUE
       IN  DeleteAll(StorageDelete(st, id), ids \ {id})

\* variant: the listener is closed without unlinking the socket path
GracefulStopBegin_KeepSocket ==
  /\ state' = IF state = "Serving" THEN "Draining" ELSE state
  /\ socketFile' = socketFile

\* grpcServer.GracefulStop: the listener is closed (which unlinks the socket
\* path) and no new RPC is accepted; the caller then waits for the handlers
GracefulStopBegin ==
  /\ state' = IF state = "Serving" THEN "Draining" ELSE state
  /\ socketFile' = FALSE

\* one tick of cleanupExpiredSecrets: the pass under the write lock, then the
\* shutdown decision
Sweep ==
  /\ sweeperPc = "wait"
  /\ state \in {"Serving", "Draining"}
  /\ LET victims == SweepVictims(secrets, now)
         kept == [n \in (DOMAIN secrets) \ victims |-> secrets[n]]
         secretCount == Cardinality(DOMAIN kept)
     IN  /\ secrets' = kept
         /\ storage' = DeleteAll(storage, victims)
         /\ gh' = [n \in (DOMAIN gh) \ victims |-> gh[n]]
         /\ IF secretCount = 0
              THEN /\ GracefulStopBegin
                   /\ sweeperPc' = "stopping"
              ELSE UNCHANGED <<state, socketFile, sweeperPc>>
         /\ resp' = IF victims = {} THEN NoResp
                    ELSE Response("Sweep", "", "removed", <<>>)
  /\ UNCHANGED <<cvars, cast, now, options, backend, sessionID, timer, timerPc, shutdownChan,
                 panicked, pc, loc, nreq, writer>>

\* The process is gone: its memory (the table, the process keyring, the
\* goroutines, the timer) goes with it; what stays is the file system.
ProcessEnds(how, panic) ==
  /\ state' = how
  /\ panicked' = panic
  /\ secrets' = EmptyMap
  /\ storage' = EmptyMap
  /\ gh' = EmptyMap
  /\ writer' = NoWriter
  /\ timer' = Nil
  /\ timerPc' = "done"
  /\ sweeperPc' = "done"
  /\ shutdownChan' = "closed"
  /\ pc' = [h \in Handlers |-> "idle"]
  /\ loc' = [h \in Handlers |-> NoLoc]
  /\ resp' = NoResp
  /\ UNCHANGED <<cvars, cast, now, socketFile, options, backend, sessionID, nreq>>

\* close(s.shutdownChan); closing a closed channel panics and ends the process
CloseShutdownChan(who) ==
  IF shutdownChan = "closed"
    THEN ProcessEnds("Stopped", TRUE)
    ELSE /\ shutdownChan' = "closed"
         /\ sweeperPc' = IF who = "sweeper" THEN "done" ELSE sweeperPc
         /\ timerPc' = IF who = "timer" THEN "done" ELSE timerPc
         /\ resp' = NoResp
         /\ UNCHANGED <<cvars, cast, now, state, socketFile, options, backend, sessionID,
                        secrets, storage, timer, panicked, pc, loc, nreq, gh, writer>>

\* the sweeper after GracefulStop returned: close the channel and return
SweeperClose ==
  /\ sweeperPc = "stopping"
  /\ state = "Draining"
  /\ AllIdle
  /\ CloseShutdownChan("sweeper")

\* the sweeper's select takes the shutdown case
SweeperReturn ==
  /\ sweeperPc = "wait"
  /\ state \in {"Serving", "Draining"}
  /\ shutdownChan = "closed"
  /\ sweeperPc' = "done"
  /\ resp' = NoResp
  /\ UNCHANGED <<cvars, cast, now, state, socketFile, options, backend, sessionID, secrets,
                 storage, timer, timerPc, shutdownChan, panicked, pc, loc, nreq, gh,
                 writer>>

\* ----------------------------------------------------- inactivity timer
\* the timer expires and its callback starts
TimerFire ==
  /\ state \in {"Serving", "Draining"}
  /\ timer.armed
  /\ now >= timer.at
  /\ timerPc \in {"idle", "done"}
  /\ timer' = [timer EXCEPT !.armed = FALSE]
  /\ timerPc' = "fired"
  /\ resp' = NoResp
  /\ UNCHANGED <<cvars, cast, now, state, socketFile, options, backend, sessionID, secrets,
                 storage, sweeperPc, shutdownChan, panicked, pc, loc, nreq, gh, writer>>

\* the callback calls GracefulStop
TimerStop ==
  /\ timerPc = "fired"
  /\ state \in {"Serving", "Draining"}
  /\ GracefulStopBegin
  /\ timerPc' = "stopping"
  /\ resp' = NoResp
  /\ UNCHANGED <<cvars, cast, now, options, backend, sessionID, secrets, storage, timer,
                 sweeperPc, shutdownChan, panicked, pc, loc, nreq, gh, writer>>

\* the callback after GracefulStop returned: close the channel
TimerClose ==
  /\ timerPc = "stopping"
  /\ state = "Draining"
  /\ AllIdle
  /\ CloseShutdownChan("timer")

\* ------------------------------------------------------------ process end
\* Serve returns once GracefulStop has completed; Run and main return
Exit ==
  /\ state = "Draining"
  /\ AllIdle
  /\ ProcessEnds("Stopped", FALSE)

\* SIGTERM / SIGINT / SIGKILL: main installs no handler, the process dies at once
Signal ==
  /\ state \in {"Serving", "Draining"}
  /\ ProcessEnds("Killed", FALSE)

\* ----------------------------------------------------------------- Next
Next ==
  \/ Run
  \/ Tick
  \/ \E h \in Handlers, c \in cast.clients, name \in cast.names,
        secret \in cast.secrets, lt \in cast.lifetimes :
        StoreRequest(h, c, name, secret, lt.ttlSeconds, lt.absSeconds, c.nonce)
  \/ \E h \in Handlers : StoreBackend(h)
  \/ \E h \in Handlers : StoreMeta(h)
  \/ \E h \in Handlers, c \in cast.clients, name \in cast.names :
        GetRequest(h, c, name, c.nonce)
  \/ \E h \in Handlers : GetDelete(h)
  \/ \E h \in Handlers : GetFetch(h)
  \/ \E h \in Handlers : Ping(h)
  \/ Sweep
  \/ SweeperClose
  \/ SweeperReturn
  \/ TimerFire
  \/ TimerStop
  \/ TimerClose
  \/ Exit
  \/ Signal

Spec == Init /\ [][Next]_vars

\* the scheduler runs every runnable handler, Serve returns once GracefulStop
\* has completed, and the runtime runs the callback of a timer that is due
FairSpec ==
  /\ Spec
  /\ \A h \in Handlers :
       WF_vars(StoreBackend(h) \/ StoreMeta(h) \/ GetDelete(h) \/ GetFetch(h))
  /\ WF_vars(Exit)
  /\ WF_vars(TimerFire)
  /\ WF_vars(TimerStop)

\* ======================================================================
\* The client side: the facade (Client), its launcher (Connect), the
\* daemons it spawns seen through their RPCs, and the fallback file store
\* ======================================================================

\* ------------------------------------------------------- fallback crypto
\* fallbackFileVersion
fallbackFileVersion == 1

\* pb.GetCurrentBinaryHash: every instance here runs executable E1
GetCurrentBinaryHash == "E1"

\* the peer the daemon sees behind an instance's connection
FacadePeer(i) == [auth |-> TRUE, PID |-> 1, nonce |-> scene.opts[i].Nonce]

\* sha256.Size: the bytes of a digest
DigestSize == 32

\* the length of the two prefixes that go into a file name
PrefixLen == 16

\* what is hashed: the executables and the names of secrets
Hashed == {"E1", "E2"} \cup Names

\* SHA-256 as a collision free function into sequences of DigestSize bytes
Digests ==
  [x \in Hashed |->
     LET seed == CASE x = "E1" -> 17 [] x = "E2" -> 34 [] x = "k1" -> 51 [] OTHER -> 68
     IN  [k \in 1..DigestSize |-> (seed + 7 * k) % 256]]

Digest(x) == Digests[x]

HexDigits == <<"0", "1", "2", "3", "4", "5", "6", "7", "8", "9", "a", "b", "c", "d", "e", "f">>

\* hex.EncodeToString and the verb %x: two hexadecimal characters per byte
Hex(bytes) ==
  [k \in 1..(2 * Len(bytes)) |->
     IF k % 2 = 1 THEN HexDigits[(bytes[(k + 1) \div 2] \div 16) + 1]
                  ELSE HexDigits[(bytes[k \div 2] % 16) + 1]]

\* the hexadecimal string a binary hash is: HashFile returns
\* hex.EncodeToString(hasher.Sum(nil))
HashStrings == [x \in Hashed |-> Hex(Digest(x))]

HashString(binaryHash) == HashStrings[binaryHash]

\* sha256.Sum256
Sum256(s) == Digest(s)

\* pbkdf2.Key: a function of the password and the salt
Pbkdf2Key(input, salt) == [input |-> input, salt |-> salt]

\* variant: the client nonce is left out of the key material
deriveKey_NoNonce(nonce, binaryHash, secretName) ==
  Pbkdf2Key(binaryHash \o secretName, Sum256(secretName))

\* Client.deriveKey: PBKDF2 over nonce + binary hash + secret name, salted
\* with the hash of the secret name
deriveKey(nonce, binaryHash, secretName) ==
  Pbkdf2Key(nonce \o binaryHash \o secretName, Sum256(secretName))

\* variant: sixteen characters of the hash of the name
FilePaths_Short ==
  [binaryHash \in {"E1", "E2"}, secretName \in Names |->
     <<"burnafter-">> \o SubSeq(HashString(binaryHash), 1, PrefixLen) \o <<"-">>
       \o SubSeq(Hex(Sum256(secretName)), 1, PrefixLen)]

\* Client.getFallbackFilePath: the name of the file in the temp directory,
\* Sprintf("burnafter-%s-%x", binaryHash[:16], secretHash[:16])
FilePaths ==
  [binaryHash \in {"E1", "E2"}, secretName \in Names |->
     <<"burnafter-">> \o SubSeq(HashString(binaryHash), 1, PrefixLen) \o <<"-">>
       \o Hex(SubSeq(Sum256(secretName), 1, PrefixLen))]

getFallbackFilePath(binaryHash, secretName) == FilePaths[binaryHash, secretName]

\* the prefix cleanupExpiredFallbackFiles filters the directory entries by
FilePrefixes ==
  [binaryHash \in {"E1", "E2"} |->
     <<"burnafter-">> \o SubSeq(HashString(binaryHash), 1, PrefixLen) \o <<"-">>]

FilePrefix(binaryHash) == FilePrefixes[binaryHash]

HasPrefix(entry, prefix) ==
  Len(entry) >= Len(prefix) /\ SubSeq(entry, 1, Len(prefix)) = prefix

\* gcm.Seal and gcm.Open: authenticated, opens only under the sealing key
\* and nonce
Seal(key, gcmNonce, pt) == [key |-> key, nonce |-> gcmNonce, pt |-> pt]

Open(key, gcmNonce, ct) ==
  IF ct.key = key /\ ct.nonce = gcmNonce
    THEN [err |-> FALSE, pt |-> ct.pt]
    ELSE [err |-> TRUE, pt |-> <<>>]

\* Client.Store, fallback branch: the expiry time of the file
expiryTime(absSeconds, ttlSeconds, defaultTTL, t) ==
  IF absSeconds > 0 THEN absSeconds
  ELSE IF ttlSeconds > 0 THEN t + ttlSeconds
  ELSE t + defaultTTL

\* the size of the GCM nonce, of the expiry field and of the GCM tag
gcmNonceSize == 12
ExpirySize == 8
gcmTagSize == 16

\* rand.Reader fills the nonce; the draw g stands for the bytes read
RandomNonces == [g \in 1..2 |-> [k \in 1..gcmNonceSize |-> g]]

RandomNonce(g) == RandomNonces[g]

\* the expiry fields of the times a file can expire at, tabulated
ExpiryFields == [v \in 0..(MaxTime + 2) |-> PutBytes(v, ExpirySize)]

\* variant: the low byte of the value comes first
PutUint64_LittleEndian(v) ==
  [k \in 1..ExpirySize |-> PutBytes(v, ExpirySize)[ExpirySize + 1 - k]]

\* binary.BigEndian.PutUint64
PutUint64(v) ==
  IF v \in DOMAIN ExpiryFields THEN ExpiryFields[v] ELSE PutBytes(v, ExpirySize)

\* binary.BigEndian.Uint64 of the eight bytes of b that start at offset o;
\* the counts from Beyond on are all read as Beyond
Uint64(b, o) ==
  IF \E k \in 1..5 : b[o + k] # 0
    THEN Beyond
    ELSE (b[o + 6] * 256 + b[o + 7]) * 256 + b[o + 8]

\* expiryUint > math.MaxInt64: the high bit of the first byte is set
ExceedsMaxInt64(b, o) == b[o + 1] >= 128

\* the bytes of a file: buf[0] the version, the nonce, the expiry, and then
\* the output of gcm.Seal, kept as sealed (its length is that of the
\* plaintext and the tag)
Serialize(version, gcmNonce, expiry, ciphertext) ==
  [header |-> <<version>> \o gcmNonce \o PutUint64(expiry), ciphertext |-> ciphertext]

\* len(buf)
BufLen(buf) == Len(buf.header) + Len(buf.ciphertext.pt) + gcmTagSize

\* the mode encryptSecret gives its file: 0o600
OwnerOnly == 384

\* a file on disk: the first size bytes of buf, with the mode
File(buf, size, mode) ==
  [header |-> buf.header, ciphertext |-> buf.ciphertext, size |-> size, mode |-> mode]

\* the file encryptSecret leaves at the path when every step succeeds
Written(buf) == File(buf, BufLen(buf), OwnerOnly)

\* decryptSecret and cleanupExpiredFallbackFiles: the fields parsed from data
fileVersion(file) == file.header[1]
fileNonce(file) == SubSeq(file.header, 2, 1 + gcmNonceSize)
fileExpiry(file) == Uint64(file.header, 1 + gcmNonceSize)
fileExpiryInvalid(file) == ExceedsMaxInt64(file.header, 1 + gcmNonceSize)

\* Client.encryptSecret up to the serialization: the bytes to write
encryptBuf(nonce, secretName, secret, expiry, g) ==
  Serialize(fallbackFileVersion, RandomNonce(g), expiry,
            Seal(deriveKey(nonce, GetCurrentBinaryHash, secretName), RandomNonce(g), secret))

\* variant: the file is written under a name of its own for every call
encryptSecret_NewFile(fs, nonce, secretName, secret, expiry, g) ==
  IF expiry < 0
    THEN [err |-> TRUE, files |-> fs]
    ELSE [err |-> FALSE,
          files |-> MapPut(fs, getFallbackFilePath(GetCurrentBinaryHash, secretName)
                               \o <<HexDigits[g]>>,
                      Written(encryptBuf(nonce, secretName, secret, expiry, g)))]

\* Client.encryptSecret: seal under the derived key, write version, GCM
\* nonce, expiry and ciphertext to a temp file, rename it onto the path
encryptSecret(fs, nonce, secretName, secret, expiry, g) ==
  IF expiry < 0
    THEN [err |-> TRUE, files |-> fs]
    ELSE [err |-> FALSE,
          files |-> MapPut(fs, getFallbackFilePath(GetCurrentBinaryHash, secretName),
                      Written(encryptBuf(nonce, secretName, secret, expiry, g)))]

\* variant: the expiry of the file is not looked at
decryptSecret_NoExpiry(fs, nonce, secretName, t) ==
  LET filePath == getFallbackFilePath(GetCurrentBinaryHash, secretName)
  IN  IF filePath \notin DOMAIN fs
        THEN [kind |-> "not-found", pt |-> <<>>, files |-> fs]
      ELSE LET opened == Open(deriveKey(nonce, GetCurrentBinaryHash, secretName),
                              fileNonce(fs[filePath]), fs[filePath].ciphertext)
           IN  [kind |-> IF opened.err THEN "decrypt" ELSE "ok", pt |-> opened.pt,
                files |-> fs]

\* Client.decryptSecret: read the file, check its size and version, remove it
\* if it has expired, open the ciphertext under the derived key
decryptSecret(fs, nonce, secretName, t) ==
  LET filePath == getFallbackFilePath(GetCurrentBinaryHash, secretName)
  IN  IF filePath \notin DOMAIN fs
        THEN [kind |-> "not-found", pt |-> <<>>, files |-> fs]
      ELSE IF fs[filePath].size < 1 + gcmNonceSize + ExpirySize
        THEN [kind |-> "format", pt |-> <<>>, files |-> fs]
      ELSE IF fileVersion(fs[filePath]) # fallbackFileVersion
        THEN [kind |-> "version", pt |-> <<>>, files |-> fs]
      ELSE IF fileExpiryInvalid(fs[filePath])
        THEN [kind |-> "format", pt |-> <<>>, files |-> fs]
      ELSE IF t > fileExpiry(fs[filePath])
        THEN [kind |-> "expired", pt |-> <<>>, files |-> MapDel(fs, filePath)]
      ELSE LET opened == Open(deriveKey(nonce, GetCurrentBinaryHash, secretName),
                              fileNonce(fs[filePath]), fs[filePath].ciphertext)
           IN  [kind |-> IF opened.err THEN "decrypt" ELSE "ok", pt |-> opened.pt,
                files |-> fs]

\* variant: a name without a file is deleted without an error
deleteFallbackSecret_Quiet(fs, secretName) ==
  LET filePath == getFallbackFilePath(GetCurrentBinaryHash, secretName)
  IN  [kind |-> "ok", files |-> MapDel(fs, filePath)]

\* Client.deleteFallbackSecret
deleteFallbackSecret(fs, secretName) ==
  LET filePath == getFallbackFilePath(GetCurrentBinaryHash, secretName)
  IN  IF filePath \notin DOMAIN fs
        THEN [kind |-> "not-found", files |-> fs]
        ELSE [kind |-> "ok", files |-> MapDel(fs, filePath)]

\* variant: every file of this executable is removed
cleanupExpiredFallbackFiles_All(fs, t) ==
  [p \in {q \in DOMAIN fs : ~HasPrefix(q, FilePrefix(GetCurrentBinaryHash))} |-> fs[p]]

\* Client.cleanupExpiredFallbackFiles: remove this executable's expired files
cleanupExpiredFallbackFiles(fs, t) ==
  [p \in {q \in DOMAIN fs : ~(/\ HasPrefix(q, FilePrefix(GetCurrentBinaryHash))
                              /\ fs[q].size >= 1 + gcmNonceSize + ExpirySize
                              /\ ~fileExpiryInvalid(fs[q])
                              /\ t > fileExpiry(fs[q]))} |-> fs[p]]

\* ------------------------------------------- the daemon behind the RPCs
\* the options a spawned daemon runs with
SpawnedOptions == CHOOSE o \in OptionSets({0}) : TRUE

\* common.GenerateSessionID: one session id per daemon process
SessionIDs == [d \in Daemons |-> IF d = "d1" THEN "sid1" ELSE "sid2"]

\* Server.Store as one RPC on the table tbl (metadata and payload per name)
ServerStore(tbl, peer, name, secret, ttlSeconds, absSeconds, sid, salt, t) ==
  LET authInfo == GetPeerAuthInfo(peer)
      bin == GetClientBinaryInfo(authInfo.PID)
      key == DeriveKey(bin.hash, peer.nonce, sid, name, salt)
      fail(kind) == [kind |-> kind, tbl |-> tbl]
  IN  IF authInfo.err THEN fail("credentials")
      ELSE IF bin.err THEN fail("binary")
      ELSE IF SizeExceeded(secret, SpawnedOptions.MaxSecretSize) THEN fail("size-exceeded")
      ELSE IF LimitReached(name \in DOMAIN tbl, Cardinality(DOMAIN tbl),
                           SpawnedOptions.MaxSecrets)
        THEN fail("limit-exceeded")
      ELSE [kind |-> "ok",
            tbl |-> MapPut(tbl, name,
                      [meta |-> [InactivityTTL |-> InactivityTTL(ttlSeconds,
                                                     SpawnedOptions.DefaultTTL),
                                 AbsoluteExpiresAt |-> AbsoluteExpiresAt(absSeconds, t),
                                 LastAccessed |-> t],
                       stored |-> [EncryptedData |-> Encrypt(secret, key), Salt |-> salt,
                                   ClientBinaryHash |-> bin.hash]])]

\* Server.Get as one RPC on the table tbl
ServerGet(tbl, peer, name, sid, t) ==
  LET authInfo == GetPeerAuthInfo(peer)
      bin == GetClientBinaryInfo(authInfo.PID)
      fail(kind, after) == [kind |-> kind, secret |-> <<>>, tbl |-> after]
      touched == [tbl EXCEPT ![name].meta.LastAccessed = t]
  IN  IF authInfo.err THEN fail("credentials", tbl)
      ELSE IF bin.err THEN fail("binary", tbl)
      ELSE IF name \notin DOMAIN tbl THEN fail("not-found", tbl)
      ELSE IF InactivityExpired(tbl[name].meta, t)
        THEN fail("expired-inactivity", MapDel(tbl, name))
      ELSE IF AbsoluteExpired(tbl[name].meta, t)
        THEN fail("expired-absolute", MapDel(tbl, name))
      ELSE LET stored == tbl[name].stored
               key == DeriveKey(bin.hash, peer.nonce, sid, name, stored.Salt)
               dec == Decrypt(stored.EncryptedData, key)
           IN  IF HashMismatch(stored, bin.hash) THEN fail("unauthorized", touched)
               ELSE IF dec.err THEN fail("crypto", touched)
               ELSE [kind |-> "ok", secret |-> dec.pt, tbl |-> touched]

\* ------------------------------------------------------ client workloads
FacadeOptions(nonce, noServer, noFallbackMode) ==
  [Nonce |-> nonce, NoServer |-> noServer, NoFallbackMode |-> noFallbackMode,
   DefaultTTL |-> 2]

\* two clients of one executable start at the same time, nothing listens
LaunchScenes ==
  {[instances |-> {"a", "b"}, connects |-> {"a", "b"},
    opts |-> [i \in Instances |-> FacadeOptions("n1", FALSE, FALSE)],
    path0 |-> "none", spawn |-> {"ok"}, tick |-> FALSE,
    names |-> {"k1"}, secrets |-> {<<1>>}, lifetimes |-> {Lifetime(0, 0)},
    gcm |-> {1}, calls |-> {"Store", "Get"}]}

\* one client; the path is free or held by a listener that speaks no gRPC;
\* starting the daemon may fail; NoServer set or not, fallback allowed or not
SoloScenes ==
  {[instances |-> {"a"}, connects |-> {"a"},
    opts |-> [i \in Instances |-> FacadeOptions("n1", ns, nf)],
    path0 |-> p0, spawn |-> {"ok", "fails"}, tick |-> FALSE,
    names |-> {"k1"}, secrets |-> {<<1>>}, lifetimes |-> {Lifetime(0, 0)},
    gcm |-> {1}, calls |-> {"Store", "Get", "Delete"}]
     : ns \in BOOLEAN, nf \in BOOLEAN, p0 \in {"none", "foreign"}}

\* two clients of one executable with different nonces, daemon or files
NonceScenes ==
  {[instances |-> {"a", "b"}, connects |-> IF ns THEN {} ELSE {"a", "b"},
    opts |-> [i \in Instances |->
                FacadeOptions(IF i = "a" THEN "n1" ELSE "n2", ns, FALSE)],
    path0 |-> "none", spawn |-> {"ok"}, tick |-> FALSE,
    names |-> {"k1"}, secrets |-> {<<1>>}, lifetimes |-> {Lifetime(0, 0)},
    gcm |-> {1}, calls |-> {"Store", "Get"}]
     : ns \in BOOLEAN}

\* the file store used without Connect: two instances with one nonce and
\* several names while the clock runs; one instance with relative and
\* absolute lifetimes and two draws of the GCM nonce
FallbackScenes ==
  {[instances |-> {"a", "b"}, connects |-> {},
    opts |-> [i \in Instances |-> FacadeOptions("n1", TRUE, FALSE)],
    path0 |-> "none", spawn |-> {"ok"}, tick |-> TRUE,
    names |-> {"k1", "k2"}, secrets |-> {<<>>, <<1>>, <<2>>},
    lifetimes |-> {Lifetime(0, 0), Lifetime(1, 0)},
    gcm |-> {1}, calls |-> {"Store", "Get", "Delete"}],
   [instances |-> {"a"}, connects |-> {},
    opts |-> [i \in Instances |-> FacadeOptions("n1", TRUE, FALSE)],
    path0 |-> "none", spawn |-> {"ok"}, tick |-> TRUE,
    names |-> {"k1"}, secrets |-> {<<>>, <<1>>},
    lifetimes |-> {Lifetime(0, 0), Lifetime(1, 0), Lifetime(0, 2)},
    gcm |-> {1, 2}, calls |-> {"Store", "Get", "Delete"}]}

\* the file store of a client whose DefaultTTL lies in the past
PastScenes ==
  {[instances |-> {"a"}, connects |-> {},
    opts |-> [i \in Instances |->
                [FacadeOptions("n1", TRUE, FALSE) EXCEPT !.DefaultTTL = -1]],
    path0 |-> "none", spawn |-> {"ok"}, tick |-> TRUE,
    names |-> {"k1"}, secrets |-> {<<1>>},
    lifetimes |-> {Lifetime(0, 0), Lifetime(0, 2)},
    gcm |-> {1}, calls |-> {"Store", "Get"}]}

Scenes ==
  LaunchScenes \cup SoloScenes \cup NonceScenes \cup FallbackScenes \cup PastScenes

\* ----------------------------------------------------------- ClientInit
\* no Store is inside encryptSecret
NoStore == [pc |-> "idle", name |-> "", secret |-> <<>>, expiry |-> 0, g |-> 0]

NewFacade ==
  [pc |-> "new", checks |-> 0, client |-> FALSE, conn |-> "none",
   serverStartFailed |-> FALSE, err |-> "none", store |-> NoStore]

NoProc == [st |-> "none", tbl |-> EmptyMap]

\* the daemon of the first part, not started
DaemonIdle ==
  /\ worker = NoWorker
  /\ launch = NoLaunch
  /\ cast = IdleCast
  /\ now = 0
  /\ state = "Starting"
  /\ socketFile = FALSE
  /\ options = SpawnedOptions
  /\ backend = "memory"
  /\ sessionID = "sid1"
  /\ secrets = EmptyMap
  /\ storage = EmptyMap
  /\ timer = Nil
  /\ timerPc = "idle"
  /\ sweeperPc = "off"
  /\ shutdownChan = "open"
  /\ panicked = FALSE
  /\ pc = [h \in Handlers |-> "idle"]
  /\ loc = [h \in Handlers |-> NoLoc]
  /\ resp = NoResp
  /\ nreq = 0
  /\ gh = EmptyMap
  /\ writer = NoWriter

\* NewClient in one of the scenes: no connection, no daemon, no file
NewClient(scenes) ==
  /\ DaemonIdle
  /\ scene \in scenes
  /\ unixNow = 0
  /\ sockPath = scene.path0
  /\ procs = [d \in Daemons |-> NoProc]
  /\ facade = [i \in Instances |-> NewFacade]
  /\ files = EmptyMap
  /\ cresp = NoCall
  /\ ncalls = 0
  /\ origin = EmptyMap

ClientInit == NewClient(Scenes)

\* -------------------------------------------------------------- Connect
\* variant: the endpoint counts as live only if a daemon answers on it
IsServerRunning_Ping == sockPath \in Daemons /\ procs[sockPath].st = "listening"

\* Client.IsServerRunning: a connection to SocketPath can be opened
IsServerRunning ==
  \/ sockPath = "foreign"
  \/ sockPath \in Daemons /\ procs[sockPath].st = "listening"

\* Client.dial: grpc.NewClient, the transport is opened by the first RPC
dial(f) == [f EXCEPT !.pc = "connected", !.client = TRUE, !.conn = "lazy", !.err = "ok"]

\* the process startServer starts
Spawned(d) ==
  /\ procs[d].st = "none"
  /\ d = "d2" => procs["d1"].st # "none"

\* Client.Connect: the two error returns
LaunchFailed(f, o, err) == [f EXCEPT !.pc = "failed", !.err = err]

\* Client.Connect up to the first sleep: reuse a running server, else start one
ConnectBegin(i) ==
  /\ i \in scene.connects
  /\ facade[i].pc = "new"
  /\ IF IsServerRunning
       THEN /\ facade' = [facade EXCEPT ![i] = dial(@)]
            /\ procs' = procs
       ELSE \E out \in scene.spawn :
              IF out = "fails"
                THEN /\ facade' = [facade EXCEPT ![i] =
                                     LaunchFailed(@, scene.opts[i], "start")]
                     /\ procs' = procs
                ELSE \E d \in Daemons :
                       /\ Spawned(d)
                       /\ procs' = [procs EXCEPT ![d].st = "spawned"]
                       /\ facade' = [facade EXCEPT ![i].pc = "polling"]
  /\ cresp' = NoCall
  /\ UNCHANGED <<dvars, scene, unixNow, sockPath, files, ncalls, origin>>

\* variant: the wait loop goes on until a server is found
ConnectCheck_Forever(i) ==
  /\ facade[i].pc = "polling"
  /\ facade' = [facade EXCEPT ![i] = IF IsServerRunning THEN dial(@) ELSE @]
  /\ cresp' = NoCall
  /\ UNCHANGED <<dvars, scene, unixNow, sockPath, procs, files, ncalls, origin>>

\* Client.Connect, one round of the wait loop: sleep, check, dial or go on;
\* after the last round the timeout error
ConnectCheck(i) ==
  /\ facade[i].pc = "polling"
  /\ facade[i].checks < ConnectAttempts
  /\ facade' = [facade EXCEPT ![i] =
                  IF IsServerRunning
                    THEN dial([@ EXCEPT !.checks = @ + 1])
                  ELSE IF facade[i].checks + 1 = ConnectAttempts
                    THEN LaunchFailed([@ EXCEPT !.checks = @ + 1], scene.opts[i], "timeout")
                  ELSE [@ EXCEPT !.checks = @ + 1]]
  /\ cresp' = NoCall
  /\ UNCHANGED <<dvars, scene, unixNow, sockPath, procs, files, ncalls, origin>>

\* ------------------------------------------------- the spawned daemons
\* history of the file store is kept until a Delete, that of a daemon as
\* long as the entry is in its table
Live(org, fs, ps) ==
  [k \in {q \in DOMAIN org :
            \/ q[1] = "file"
            \/ q[1] \in Daemons /\ q[2] \in DOMAIN ps[q[1]].tbl} |-> org[k]]

\* Server.Run: unlink whatever is at SocketPath, listen on it
DaemonRun(d) ==
  /\ procs[d].st = "spawned"
  /\ procs' = [procs EXCEPT ![d].st = "listening"]
  /\ sockPath' = d
  /\ cresp' = NoCall
  /\ UNCHANGED <<dvars, scene, unixNow, facade, files, ncalls, origin>>

\* Server.Run returns after a graceful stop: the deferred listener.Close
\* unlinks SocketPath, the table goes with the process
DaemonExit(d) ==
  /\ procs[d].st = "listening"
  /\ procs' = [procs EXCEPT ![d] = [st |-> "gone", tbl |-> EmptyMap]]
  /\ sockPath' = "none"
  /\ origin' = Live(origin, files, procs')
  /\ cresp' = NoCall
  /\ UNCHANGED <<dvars, scene, unixNow, facade, files, ncalls>>

ClientTick ==
  /\ scene.tick
  /\ unixNow < MaxTime
  /\ unixNow' = unixNow + 1
  /\ cresp' = NoCall
  /\ UNCHANGED <<dvars, scene, sockPath, procs, facade, files, ncalls, origin>>

\* ------------------------------------------------------ the facade calls
\* Client.useFallback
useFallback(f, o) == o.NoServer \/ f.serverStartFailed

\* the daemon an RPC of the instance reaches: the one its transport is
\* connected to, else the one listening at SocketPath
Target(i) ==
  IF facade[i].conn \in Daemons /\ procs[facade[i].conn].st = "listening"
    THEN facade[i].conn
  ELSE IF sockPath \in Daemons /\ procs[sockPath].st = "listening" THEN sockPath
  ELSE "none"

Call(i, op, name, via, kind, secret) ==
  [who |-> i, op |-> op, name |-> name, via |-> via, kind |-> kind, secret |-> secret]

\* a facade method is called on an instance that is not inside Connect
Calls(i, op) ==
  /\ i \in scene.instances
  /\ op \in scene.calls
  /\ facade[i].pc # "polling"
  /\ ncalls < MaxCalls
  /\ ncalls' = ncalls + 1

\* Client.Store
FacadeStore(i, name, secret, ttlSeconds, absSeconds) ==
  /\ Calls(i, "Store")
  /\ IF useFallback(facade[i], scene.opts[i])
       THEN \E g \in scene.gcm :
              LET expiry == expiryTime(absSeconds, ttlSeconds, scene.opts[i].DefaultTTL,
                                       unixNow)
                  enc == encryptSecret(files, scene.opts[i].Nonce, name, secret, expiry, g)
              IN  /\ files' = IF enc.err THEN files
                              ELSE cleanupExpiredFallbackFiles(enc.files, unixNow)
                  /\ origin' = IF enc.err THEN origin
                               ELSE MapPut(origin, <<"file", name>>,
                                      [nonce |-> scene.opts[i].Nonce, pt |-> secret,
                                       expiry |-> expiry, by |-> i,
                                       prev |-> IF <<"file", name>> \in DOMAIN origin
                                                  THEN {origin[<<"file", name>>].pt}
                                                  ELSE {}])
                  /\ cresp' = Call(i, "Store", name, "file",
                                   IF enc.err THEN "failed" ELSE "ok", <<>>)
                  /\ UNCHANGED <<procs, facade>>
     ELSE IF ~facade[i].client
       THEN /\ cresp' = Call(i, "Store", name, "daemon", "not-connected", <<>>)
            /\ UNCHANGED <<procs, facade, files, origin>>
     ELSE IF Target(i) = "none"
       THEN /\ cresp' = Call(i, "Store", name, "daemon", "rpc", <<>>)
            /\ UNCHANGED <<procs, facade, files, origin>>
     ELSE LET d == Target(i)
              r == ServerStore(procs[d].tbl, FacadePeer(i), name, secret, ttlSeconds,
                               absSeconds, SessionIDs[d], 1, unixNow)
          IN  /\ procs' = [procs EXCEPT ![d].tbl = r.tbl]
              /\ facade' = [facade EXCEPT ![i].conn = d]
              /\ origin' = IF r.kind = "ok"
                             THEN MapPut(origin, <<d, name>>,
                                    [nonce |-> scene.opts[i].Nonce, pt |-> secret,
                                     expiry |-> -1, by |-> i, prev |-> {}])
                             ELSE origin
              /\ cresp' = Call(i, "Store", name, "daemon", r.kind, <<>>)
              /\ files' = files
  /\ UNCHANGED <<dvars, scene, unixNow, sockPath>>

\* Client.Get
FacadeGet(i, name) ==
  /\ Calls(i, "Get")
  /\ IF useFallback(facade[i], scene.opts[i])
       THEN LET dec == decryptSecret(files, scene.opts[i].Nonce, name, unixNow)
            IN  /\ files' = IF dec.kind = "ok"
                              THEN cleanupExpiredFallbackFiles(dec.files, unixNow)
                              ELSE dec.files
                /\ origin' = origin
                /\ cresp' = Call(i, "Get", name, "file", dec.kind, dec.pt)
                /\ UNCHANGED <<procs, facade>>
     ELSE IF ~facade[i].client
       THEN /\ cresp' = Call(i, "Get", name, "daemon", "not-connected", <<>>)
            /\ UNCHANGED <<procs, facade, files, origin>>
     ELSE IF Target(i) = "none"
       THEN /\ cresp' = Call(i, "Get", name, "daemon", "rpc", <<>>)
            /\ UNCHANGED <<procs, facade, files, origin>>
     ELSE LET d == Target(i)
              r == ServerGet(procs[d].tbl, FacadePeer(i), name, SessionIDs[d], unixNow)
          IN  /\ procs' = [procs EXCEPT ![d].tbl = r.tbl]
              /\ facade' = [facade EXCEPT ![i].conn = d]
              /\ origin' = Live(origin, files, procs')
              /\ cresp' = Call(i, "Get", name, "daemon", r.kind, r.secret)
              /\ files' = files
  /\ UNCHANGED <<dvars, scene, unixNow, sockPath>>

\* Client.Delete
FacadeDelete(i, name) ==
  /\ Calls(i, "Delete")
  /\ IF useFallback(facade[i], scene.opts[i])
       THEN LET del == deleteFallbackSecret(files, name)
            IN  /\ files' = IF del.kind = "ok"
                              THEN cleanupExpiredFallbackFiles(del.files, unixNow)
                              ELSE del.files
                /\ origin' = IF del.kind = "ok" THEN MapDel(origin, <<"file", name>>)
                                                  ELSE origin
                /\ cresp' = Call(i, "Delete", name, "file", del.kind, <<>>)
       ELSE /\ cresp' = Call(i, "Delete", name, "daemon", "unsupported", <<>>)
            /\ UNCHANGED <<files, origin>>
  /\ UNCHANGED <<dvars, scene, unixNow, sockPath, procs, facade>>

\* ----------------------------------------------------------- ClientNext
ClientNext ==
  \/ \E i \in Instances : ConnectBegin(i)
  \/ \E i \in Instances : ConnectCheck(i)
  \/ \E d \in Daemons : DaemonRun(d)
  \/ \E d \in Daemons : DaemonExit(d)
  \/ ClientTick
  \/ \E i \in Instances, name \in scene.names, secret \in scene.secrets,
        lt \in scene.lifetimes :
        FacadeStore(i, name, secret, lt.ttlSeconds, lt.absSeconds)
  \/ \E i \in Instances, name \in scene.names : FacadeGet(i, name)
  \/ \E i \in Instances, name \in scene.names : FacadeDelete(i, name)

ClientSpec == ClientInit /\ [][ClientNext]_vars

\* Connect is a sequential loop of sleeps and checks: it takes its next round
FairClientSpec ==
  /\ ClientSpec
  /\ \A i \in Instances : WF_vars(ConnectCheck(i))

\* ======================================================================
\* Client.encryptSecret step by step: the temp file is created, written,
\* closed, chmod-ed and renamed onto the path while other calls run; every
\* step may fail, and then the temp file is removed
\* ======================================================================
RECURSIVE Clear(_, _)
\* mode &^ mask: the permission bits the umask leaves
Clear(mode, mask) ==
  IF mode = 0 THEN 0
  ELSE 2 * Clear(mode \div 2, mask \div 2) + (IF mask % 2 = 1 THEN 0 ELSE mode % 2)

\* the umask of the process: 0o022 or 0o277
Umasks == {18, 191}

\* two instances with one nonce store and read one name
WriteScenes ==
  {[instances |-> {"a", "b"}, connects |-> {},
    opts |-> [i \in Instances |-> FacadeOptions("n1", TRUE, FALSE)],
    path0 |-> "none", spawn |-> {"ok"}, tick |-> TRUE,
    names |-> {"k1"}, secrets |-> {<<1>>, <<2>>},
    lifetimes |-> {Lifetime(1, 0)},
    gcm |-> {1}, calls |-> {"Store", "Get", "Delete"}, umask |-> u]
     : u \in Umasks}

WriteInit == NewClient(WriteScenes)

\* os.CreateTemp(dir, ".burnafter-tmp-*"): a name no other file has
TempPath(i) == <<".burnafter-tmp-", i>>

\* the Stores that are inside encryptSecret
Pending == Cardinality({i \in Instances : facade[i].store.pc # "idle"})

\* the bytes the Store of the instance writes
StoreBuf(i) ==
  encryptBuf(scene.opts[i].Nonce, facade[i].store.name, facade[i].store.secret,
             facade[i].store.expiry, facade[i].store.g)

\* the steps of a Store that do not return leave the other variables alone
StoreStep(i, step) ==
  /\ facade' = [facade EXCEPT ![i].store.pc = step]
  /\ cresp' = NoCall
  /\ UNCHANGED <<dvars, scene, unixNow, sockPath, procs, ncalls>>

\* the Store returns
StoreReturn(i, kind) ==
  /\ facade' = [facade EXCEPT ![i].store = NoStore]
  /\ cresp' = Call(i, "Store", facade[i].store.name, "file", kind, <<>>)
  /\ ncalls' = ncalls + 1
  /\ UNCHANGED <<dvars, scene, unixNow, sockPath, procs>>

\* Client.Store up to os.CreateTemp
StoreBegin(i, name, secret, ttlSeconds, absSeconds) ==
  /\ i \in scene.instances
  /\ useFallback(facade[i], scene.opts[i])
  /\ facade[i].store.pc = "idle"
  /\ ncalls + Pending < MaxCalls
  /\ \E g \in scene.gcm, created \in BOOLEAN :
       LET expiry == expiryTime(absSeconds, ttlSeconds, scene.opts[i].DefaultTTL, unixNow)
       IN  IF expiry < 0 \/ ~created
             THEN /\ cresp' = Call(i, "Store", name, "file", "failed", <<>>)
                  /\ ncalls' = ncalls + 1
                  /\ UNCHANGED <<dvars, scene, unixNow, sockPath, procs, facade, files,
                                 origin>>
             ELSE /\ files' = MapPut(files, TempPath(i),
                                File(encryptBuf(scene.opts[i].Nonce, name, secret, expiry, g),
                                     0, Clear(OwnerOnly, scene.umask)))
                  /\ facade' = [facade EXCEPT ![i].store =
                                  [pc |-> "write", name |-> name, secret |-> secret,
                                   expiry |-> expiry, g |-> g]]
                  /\ cresp' = NoCall
                  /\ UNCHANGED <<dvars, scene, unixNow, sockPath, procs, ncalls, origin>>

\* tmpFile.Write(buf): all of the bytes, or an error after some of them
StoreWrite(i) ==
  /\ facade[i].store.pc = "write"
  /\ \E n \in {0, 1 + gcmNonceSize, BufLen(StoreBuf(i))} :
       /\ files' = [files EXCEPT ![TempPath(i)].size = n]
       /\ StoreStep(i, IF n = BufLen(StoreBuf(i)) THEN "close" ELSE "remove")
  /\ origin' = origin

\* tmpFile.Close()
StoreClose(i) ==
  /\ facade[i].store.pc = "close"
  /\ \E closed \in BOOLEAN : StoreStep(i, IF closed THEN "chmod" ELSE "remove")
  /\ UNCHANGED <<files, origin>>

\* variant: the mode of the temp file stays as the umask left it
StoreChmod_Skip(i) ==
  /\ facade[i].store.pc = "chmod"
  /\ \E changed \in BOOLEAN : StoreStep(i, IF changed THEN "rename" ELSE "remove")
  /\ UNCHANGED <<files, origin>>

\* os.Chmod(tmpPath, 0o600)
StoreChmod(i) ==
  /\ facade[i].store.pc = "chmod"
  /\ \E changed \in BOOLEAN :
       /\ files' = IF changed THEN [files EXCEPT ![TempPath(i)].mode = OwnerOnly]
                              ELSE files
       /\ StoreStep(i, IF changed THEN "rename" ELSE "remove")
  /\ origin' = origin

\* os.Rename(tmpPath, filePath)
StoreRename(i) ==
  /\ facade[i].store.pc = "rename"
  /\ \E renamed \in BOOLEAN :
       LET name == facade[i].store.name
       IN  /\ files' = IF renamed
                         THEN MapDel(MapPut(files,
                                            getFallbackFilePath(GetCurrentBinaryHash, name),
                                            files[TempPath(i)]),
                                     TempPath(i))
                         ELSE files
           /\ origin' = IF renamed
                          THEN MapPut(origin, <<"file", name>>,
                                 [nonce |-> scene.opts[i].Nonce,
                                  pt |-> facade[i].store.secret,
                                  expiry |-> facade[i].store.expiry, by |-> i,
                                  prev |-> IF <<"file", name>> \in DOMAIN origin
                                             THEN {origin[<<"file", name>>].pt}
                                             ELSE {}])
                          ELSE origin
           /\ StoreStep(i, IF renamed THEN "cleanup" ELSE "remove")

\* a step has failed: os.Remove(tmpPath), and the error is returned
StoreRemove(i) ==
  /\ facade[i].store.pc = "remove"
  /\ files' = MapDel(files, TempPath(i))
  /\ origin' = origin
  /\ StoreReturn(i, "failed")

\* Client.Store after encryptSecret: the cleanup pass
StoreCleanup(i) ==
  /\ facade[i].store.pc = "cleanup"
  /\ files' = cleanupExpiredFallbackFiles(files, unixNow)
  /\ origin' = origin
  /\ StoreReturn(i, "ok")

WriteNext ==
  \/ \E i \in Instances, name \in scene.names, secret \in scene.secrets,
        lt \in scene.lifetimes :
        StoreBegin(i, name, secret, lt.ttlSeconds, lt.absSeconds)
  \/ \E i \in Instances : StoreWrite(i)
  \/ \E i \in Instances : StoreClose(i)
  \/ \E i \in Instances : StoreChmod(i)
  \/ \E i \in Instances : StoreRename(i)
  \/ \E i \in Instances : StoreRemove(i)
  \/ \E i \in Instances : StoreCleanup(i)
  \/ ClientTick
  \/ \E i \in Instances, name \in scene.names :
        ncalls + Pending < MaxCalls /\ FacadeGet(i, name)
  \/ \E i \in Instances, name \in scene.names :
        ncalls + Pending < MaxCalls /\ FacadeDelete(i, name)

WriteSpec == WriteInit /\ [][WriteNext]_vars

\* ======================================================================
\* main of the daemon binary: the options the server is created with
\* ======================================================================
OptionKeys == {"DefaultTTL", "InactivityTimeout", "MaxSecrets", "MaxSecretSize"}

\* options.defaultCommon, durations in seconds
defaultCommon ==
  [DefaultTTL |-> 14400, InactivityTimeout |-> 0, MaxSecrets |-> 100,
   MaxSecretSize |-> 1048576]

\* var clientOpts options.Common: the zero value
ZeroCommon ==
  [DefaultTTL |-> 0, InactivityTimeout |-> 0, MaxSecrets |-> 0, MaxSecretSize |-> 0]

\* the values an argument may give a key
GivenValues ==
  [DefaultTTL |-> {60, 3600}, InactivityTimeout |-> {30, 600}, MaxSecrets |-> {5, 200},
   MaxSecretSize |-> {10, 4096}]

\* the JSON objects passed as os.Args[1]: any of the keys, each with a value
JsonObjects ==
  UNION {[keys -> UNION {GivenValues[k] : k \in OptionKeys}] : keys \in SUBSET OptionKeys}

\* os.Args: no argument, an argument that is not JSON, or a JSON object
Arguments ==
  {[given |-> FALSE, valid |-> FALSE, object |-> [k \in {} |-> 0]],
   [given |-> TRUE, valid |-> FALSE, object |-> [k \in {} |-> 0]]}
  \cup {[given |-> TRUE, valid |-> TRUE, object |-> o] :
          o \in {j \in JsonObjects : \A k \in DOMAIN j : j[k] \in GivenValues[k]}}

\* json.Unmarshal into the zero options.Common: the keys of the object are
\* set, the others stay zero
Unmarshal(object) ==
  [k \in OptionKeys |-> IF k \in DOMAIN object THEN object[k] ELSE ZeroCommon[k]]

\* the process has been started, main has not run
MainInit ==
  /\ worker = NoWorker
  /\ launch = NoLaunch
  /\ cast = IdleCast
  /\ now = 0
  /\ state = "Starting"
  /\ socketFile = FALSE
  /\ options = defaultCommon
  /\ backend = "memory"
  /\ sessionID = ""
  /\ secrets = EmptyMap
  /\ storage = EmptyMap
  /\ timer = Nil
  /\ timerPc = "idle"
  /\ sweeperPc = "off"
  /\ shutdownChan = "open"
  /\ panicked = FALSE
  /\ pc = [h \in Handlers |-> "idle"]
  /\ loc = [h \in Handlers |-> NoLoc]
  /\ resp = NoResp
  /\ nreq = 0
  /\ gh = EmptyMap
  /\ writer = NoWriter
  /\ scene \in {[instances |-> {}, args |-> a] : a \in Arguments}
  /\ unixNow = 0
  /\ sockPath = "none"
  /\ procs = [d \in Daemons |-> [st |-> "none", tbl |-> EmptyMap]]
  /\ facade = [i \in Instances |-> [pc |-> "new"]]
  /\ files = EmptyMap
  /\ cresp = NoCall
  /\ ncalls = 0
  /\ origin = EmptyMap

\* main: the argument does not parse, os.Exit(1)
MainExit ==
  /\ state = "Starting" /\ sessionID = ""
  /\ scene.args.given /\ ~scene.args.valid
  /\ state' = "Stopped"
  /\ UNCHANGED <<cvars, cast, now, socketFile, options, backend, sessionID, secrets,
                 storage, timer, timerPc, sweeperPc, shutdownChan, panicked, pc, loc,
                 resp, nreq, gh, writer>>

\* main: serverOpts.Common = clientOpts when there is an argument, then
\* server.NewServer(ctx, serverOpts)
MainServer ==
  /\ state = "Starting" /\ sessionID = ""
  /\ scene.args.given => scene.args.valid
  /\ options' = IF scene.args.given THEN Unmarshal(scene.args.object) ELSE options
  /\ sessionID' = "sid1"
  /\ UNCHANGED <<cvars, cast, now, state, socketFile, backend, secrets, storage, timer,
                 timerPc, sweeperPc, shutdownChan, panicked, pc, loc, resp, nreq, gh,
                 writer>>

MainNext == MainExit \/ MainServer

MainSpec == MainInit /\ [][MainNext]_vars

\* ======================================================================
\* The two storage backends side by side: every call is made on both
\* ======================================================================
Backends == {"memory", "keyring"}

\* a byte string: n bytes, b tells strings of one length apart
Bytes(n, b) == [n |-> n, b |-> b]

NoBytes == Bytes(0, 0)

\* the largest payload the kernel takes for a key of type "user"
UserKeyMax == 32767

\* the payloads of the calls: the one of the keyring tests, one with empty
\* fields, and one with more encrypted data than a key holds
Payloads ==
  {[EncryptedData |-> Bytes(19, 1), Salt |-> Bytes(9, 1), ClientBinaryHash |-> "E1"],
   [EncryptedData |-> Bytes(19, 2), Salt |-> NoBytes, ClientBinaryHash |-> ""],
   [EncryptedData |-> Bytes(UserKeyMax + 1, 1), Salt |-> Bytes(9, 1),
    ClientBinaryHash |-> "E1"]}

PayloadFields == {"EncryptedData", "Salt", "ClientBinaryHash"}

\* the zero values gob leaves out
ZeroField(f) == IF f = "ClientBinaryHash" THEN "" ELSE NoBytes

\* gob.Encoder.Encode: the fields that are not zero; the size counts the two
\* byte strings only (type descriptor and hash add to it)
GobEncode(payload) ==
  [fields |-> [f \in {g \in PayloadFields : payload[g] # ZeroField(g)} |-> payload[f]],
   size |-> payload.EncryptedData.n + payload.Salt.n]

\* gob.Decoder.Decode into a zero Payload
GobDecode(data) ==
  [f \in PayloadFields |-> IF f \in DOMAIN data.fields THEN data.fields[f] ELSE ZeroField(f)]

\* unix.AddKey("user", id, data, keyring)
AddKey(ring, id, data) ==
  IF data.size > UserKeyMax
    THEN [err |-> TRUE, st |-> ring]
    ELSE [err |-> FALSE, st |-> MapPut(ring, id, data)]

\* storeOnThread: encode, unlink the key that exists, add the key
storeOnThread(ring, id, payload) == AddKey(MapDel(ring, id), id, GobEncode(payload))

\* getOnThread: search the key, read it, decode
getOnThread(ring, id) ==
  IF id \in DOMAIN ring THEN [err |-> FALSE, payload |-> {GobDecode(ring[id])}]
  ELSE [err |-> TRUE, payload |-> {}]

\* deleteOnThread: a key that is not found is no error
deleteOnThread(ring, id) == [err |-> FALSE, st |-> MapDel(ring, id)]

\* both backends empty; gh is the binding the calls so far ask for
StorageInit ==
  /\ cast = IdleCast
  /\ now = 0
  /\ state = "Starting"
  /\ socketFile = FALSE
  /\ options = SpawnedOptions
  /\ backend = "memory"
  /\ sessionID = "sid1"
  /\ secrets = EmptyMap
  /\ storage = [b \in Backends |-> EmptyMap]
  /\ timer = Nil
  /\ timerPc = "idle"
  /\ sweeperPc = "off"
  /\ shutdownChan = "open"
  /\ panicked = FALSE
  /\ pc = [h \in Handlers |-> "idle"]
  /\ loc = [h \in Handlers |-> NoLoc]
  /\ resp = NoResp
  /\ nreq = 0
  /\ gh = EmptyMap
  /\ writer = NoWriter
  /\ ClientIdle

\* a call on both backends returns
BothReturn(op, id, memory, keyring) ==
  /\ nreq < MaxRequests
  /\ nreq' = nreq + 1
  /\ resp' = [op |-> op, id |-> id, memory |-> memory, keyring |-> keyring]
  /\ UNCHANGED <<cvars, cast, now, state, socketFile, options, backend, sessionID, secrets,
                 timer, timerPc, sweeperPc, shutdownChan, panicked, pc, loc, writer>>

\* Store on the MemoryStorage and on the KeyringStorage
BothStore(id, payload) ==
  LET added == storeOnThread(storage.keyring, id, payload)
  IN  /\ storage' = [memory |-> StorageStore(storage.memory, id, payload),
                     keyring |-> added.st]
      /\ gh' = MapPut(gh, id, payload)
      /\ BothReturn("store", id, [err |-> FALSE, payload |-> {}],
                    [err |-> added.err, payload |-> {}])

\* Get on both
BothGet(id) ==
  /\ UNCHANGED <<storage, gh>>
  /\ BothReturn("get", id, StorageGet(storage.memory, id), getOnThread(storage.keyring, id))

\* Delete on both
BothDelete(id) ==
  LET unlinked == deleteOnThread(storage.keyring, id)
  IN  /\ storage' = [memory |-> StorageDelete(storage.memory, id), keyring |-> unlinked.st]
      /\ gh' = MapDel(gh, id)
      /\ BothReturn("delete", id, [err |-> FALSE, payload |-> {}],
                    [err |-> unlinked.err, payload |-> {}])

StorageNext ==
  \/ \E id \in Names, payload \in Payloads : BothStore(id, payload)
  \/ \E id \in Names : BothGet(id)
  \/ \E id \in Names : BothDelete(id)

StorageSpec == StorageInit /\ [][StorageNext]_vars

\* ======================================================================
\* NewKeyringStorage called from several goroutines, and the worker
\* ======================================================================
\* the payloads a key holds
KeyPayloads == {p \in Payloads : GobEncode(p).size <= UserKeyMax}

\* the ids the goroutines use
KeyIds == {"k1"}

WorkerInit == DaemonIdle /\ ClientIdle

Caller(g) == worker.callers[g]

\* the goroutine moves on; path records how it came through workerOnce.Do
Goes(w, g, step, path) == [w EXCEPT !.callers[g].pc = step, !.callers[g].path = path]

\* NewKeyringStorage, sync.Once.Do: done is read without the lock
OnceDo(g) ==
  /\ Caller(g).pc = "idle"
  /\ worker' = IF worker.once.done THEN Goes(worker, g, "check", "fast")
                                   ELSE Goes(worker, g, "lock", "slow")
  /\ UNCHANGED rest

\* variant: the function is run by every goroutine that gets the lock
OnceLock_NoCheck(g) ==
  /\ Caller(g).pc = "lock"
  /\ worker.once.m = "free"
  /\ worker' = [Goes(worker, g, "init", "first") EXCEPT !.once.m = g]
  /\ UNCHANGED rest

\* sync.Once.doSlow: take the lock, run the function unless done is set
OnceLock(g) ==
  /\ Caller(g).pc = "lock"
  /\ worker.once.m = "free"
  /\ worker' = IF worker.once.done
                 THEN Goes(worker, g, "check", "waited")
                 ELSE [Goes(worker, g, "init", "first") EXCEPT !.once.m = g]
  /\ UNCHANGED rest

\* initWorker: make the request channel, start the worker goroutine
initWorker(g) ==
  /\ Caller(g).pc = "init"
  /\ worker' = [Goes(worker, g, "wait", Caller(g).path) EXCEPT
                  !.reqChan = "open", !.thread = "init", !.started = @ + 1]
  /\ UNCHANGED rest

\* the worker goroutine: lock the thread, get the process keyring, set its
\* permissions, report on initDone, then serve requests
WorkerStart ==
  /\ worker.thread = "init"
  /\ \E ok \in BOOLEAN :
       worker' = [worker EXCEPT !.thread = IF ok THEN "serving" ELSE "dead",
                                !.initDone = IF ok THEN "nil" ELSE "failed"]
  /\ UNCHANGED rest

\* initWorker after <-initDone, and the end of Once.Do: errWorkerInit is set,
\* the channel closed on failure, done set, the lock released
initWorkerDone(g) ==
  /\ Caller(g).pc = "wait"
  /\ worker.initDone # "empty"
  /\ worker' = [Goes(worker, g, "check", Caller(g).path) EXCEPT
                  !.err = worker.initDone,
                  !.reqChan = IF worker.initDone = "failed" THEN "closed" ELSE @,
                  !.once = [done |-> TRUE, m |-> "free"]]
  /\ UNCHANGED rest

\* NewKeyringStorage returns errWorkerInit or a KeyringStorage
NewKeyringStorage(g) ==
  /\ Caller(g).pc = "check"
  /\ worker' = Goes(worker, g, IF worker.err = "nil" THEN "ready" ELSE "failed",
                    Caller(g).path)
  /\ UNCHANGED rest

\* KeyringStorage.Store / Get / Delete up to the send: the reply channel is
\* made, the request is offered on workerReqChan and the goroutine blocks there
Dispatch(g, op, id, payload) ==
  /\ Caller(g).pc = "ready"
  /\ worker.nops < MaxRequests
  /\ worker' = [worker EXCEPT
                  !.callers[g].pc = "send",
                  !.callers[g].req = [by |-> g, op |-> op, id |-> id, err |-> FALSE,
                                      payload |-> payload],
                  !.senders = Append(@, g), !.respChan[g] = {}, !.replies[g] = 0,
                  !.nops = @ + 1]
  /\ UNCHANGED rest

\* KeyringStorage.Store
KeyringStore(g, id, payload) == Dispatch(g, "store", id, {payload})

\* KeyringStorage.Get
KeyringGet(g, id) == Dispatch(g, "get", id, {})

\* KeyringStorage.Delete
KeyringDelete(g, id) == Dispatch(g, "delete", id, {})

\* the worker's loop, for req := range workerReqChan: the request of the
\* goroutine that has waited longest is received; the sender goes on to wait
\* for the reply
WorkerReceive ==
  /\ worker.thread = "serving" /\ worker.reqChan = "open"
  /\ worker.handling = "none"
  /\ worker.senders # <<>>
  /\ worker' = [worker EXCEPT !.handling = Head(worker.senders),
                              !.senders = Tail(@),
                              !.callers[Head(worker.senders)].pc = "await"]
  /\ UNCHANGED rest

\* what the operation of a request does on the locked thread
OnThread(ring, req) ==
  CASE req.op = "store" ->
         LET added == storeOnThread(ring, req.id, CHOOSE p \in req.payload : TRUE)
         IN  [err |-> added.err, payload |-> {}, st |-> added.st]
    [] req.op = "get" ->
         LET got == getOnThread(ring, req.id)
         IN  [err |-> got.err, payload |-> got.payload, st |-> ring]
    [] OTHER ->
         LET unlinked == deleteOnThread(ring, req.id)
         IN  [err |-> unlinked.err, payload |-> {}, st |-> unlinked.st]

\* variant: a failed operation is not answered
Served_Silent(g, req, done) ==
  /\ worker.handling = g
  /\ worker' = [worker EXCEPT
                  !.handling = "none", !.ring = done.st, !.served = @ + 1,
                  !.respChan[g] = IF done.err THEN @ ELSE
                                    @ \cup {[req EXCEPT !.err = done.err,
                                                        !.payload = done.payload]},
                  !.replies[g] = IF done.err THEN @ ELSE @ + 1,
                  !.last = [req EXCEPT !.err = done.err, !.payload = done.payload],
                  !.bound = CASE req.op = "get" -> @
                              [] req.op = "store" /\ ~done.err ->
                                   MapPut(@, req.id, [payload |-> CHOOSE p \in req.payload : TRUE,
                                                      by |-> g])
                              [] OTHER -> MapDel(@, req.id)]
  /\ UNCHANGED rest

\* the worker runs the operation of the request in hand and sends the answer
\* on the request's reply channel, which has room for one
Served(g, req, done) ==
  /\ worker.handling = g
  /\ worker' = [worker EXCEPT
                  !.handling = "none", !.ring = done.st, !.served = @ + 1,
                  !.respChan[g] = @ \cup {[req EXCEPT !.err = done.err,
                                                      !.payload = done.payload]},
                  !.replies[g] = @ + 1,
                  !.last = [req EXCEPT !.err = done.err, !.payload = done.payload],
                  !.bound = CASE req.op = "get" -> @
                              [] req.op = "store" /\ ~done.err ->
                                   MapPut(@, req.id, [payload |-> CHOOSE p \in req.payload : TRUE,
                                                      by |-> g])
                              [] OTHER -> MapDel(@, req.id)]
  /\ UNCHANGED rest

WorkerServe(g) == Served(g, Caller(g).req, OnThread(worker.ring, Caller(g).req))

\* KeyringStorage.Store / Get / Delete from the receive on the reply channel
\* to the return
Reply(g) ==
  /\ Caller(g).pc = "await"
  /\ worker.respChan[g] # {}
  /\ worker' = [worker EXCEPT !.callers[g].pc = "ready", !.callers[g].req = NoOp,
                              !.respChan[g] = {}]
  /\ UNCHANGED rest

WorkerNext ==
  \/ \E g \in Goroutines : OnceDo(g)
  \/ \E g \in Goroutines : OnceLock(g)
  \/ \E g \in Goroutines : initWorker(g)
  \/ WorkerStart
  \/ \E g \in Goroutines : initWorkerDone(g)
  \/ \E g \in Goroutines : NewKeyringStorage(g)
  \/ \E g \in Goroutines, id \in KeyIds, payload \in KeyPayloads : KeyringStore(g, id, payload)
  \/ \E g \in Goroutines, id \in KeyIds : KeyringGet(g, id)
  \/ \E g \in Goroutines, id \in KeyIds : KeyringDelete(g, id)
  \/ WorkerReceive
  \/ \E g \in Goroutines : WorkerServe(g)
  \/ \E g \in Goroutines : Reply(g)

WorkerSpec == WorkerInit /\ [][WorkerNext]_vars

\* the scheduler runs the worker goroutine and every goroutine that can go on
FairWorkerSpec ==
  /\ WorkerSpec
  /\ WF_vars(WorkerReceive)
  /\ \A g \in Goroutines : WF_vars(WorkerServe(g)) /\ WF_vars(Reply(g))

\* ======================================================================
\* Store requests with any lifetime, under any default TTL
\* ======================================================================
\* one handler, one executable, one name; ttl_seconds and
\* absolute_expiration_seconds range over the int64 values a request can carry
RangeCast ==
  [handlers |-> {"h1"},
   clients |-> {ClientE1},
   names |-> {"k1"}, secrets |-> {<<1>>},
   lifetimes |-> {Lifetime(ttl, abs) : ttl \in {-1, 0, 1, Beyond + 1, Beyond + 2},
                                       abs \in {0, 1, Beyond + 2}},
   salts |-> {1}, timeouts |-> {0}, backends |-> {"memory"}]

\* the options of the daemon: DefaultTTL as configured, or 0 when the options
\* handed to the daemon do not name it
RangeOptions ==
  {[o EXCEPT !.DefaultTTL = d] : o \in OptionSets(RangeCast.timeouts), d \in {0, 2}}

LifetimeInit ==
  /\ cast = RangeCast
  /\ now = 0
  /\ state = "Starting"
  /\ socketFile = FALSE
  /\ options \in RangeOptions
  /\ backend \in cast.backends
  /\ sessionID = "sid1"
  /\ secrets = EmptyMap
  /\ storage = EmptyMap
  /\ timer = Nil
  /\ timerPc = "idle"
  /\ sweeperPc = "off"
  /\ shutdownChan = "open"
  /\ panicked = FALSE
  /\ pc = [h \in Handlers |-> "idle"]
  /\ loc = [h \in Handlers |-> NoLoc]
  /\ resp = NoResp
  /\ nreq = 0
  /\ gh = EmptyMap
  /\ writer = NoWriter
  /\ ClientIdle

LifetimeNext ==
  \/ Run
  \/ Tick
  \/ \E h \in Handlers, c \in cast.clients, name \in cast.names,
        secret \in cast.secrets, lt \in cast.lifetimes :
        StoreRequest(h, c, name, secret, lt.ttlSeconds, lt.absSeconds, c.nonce)
  \/ \E h \in Handlers : StoreBackend(h)
  \/ \E h \in Handlers : StoreMeta(h)
  \/ \E h \in Handlers, c \in cast.clients, name \in cast.names :
        GetRequest(h, c, name, c.nonce)
  \/ \E h \in Handlers : GetDelete(h)
  \/ \E h \in Handlers : GetFetch(h)

LifetimeSpec == LifetimeInit /\ [][LifetimeNext]_vars

\* ======================================================================
\* NewServer: the storage backend is chosen from what NewKeyringStorage returns
\* ======================================================================
\* the daemon before NewServer has returned; g1 is the goroutine of main, g2
\* any other caller of NewKeyringStorage in the process
BootInit ==
  /\ cast = PayloadsCast
  /\ now = 0
  /\ state = "Booting"
  /\ socketFile = FALSE
  /\ options \in OptionSets(cast.timeouts)
  /\ backend = "none"
  /\ sessionID = "sid1"
  /\ secrets = EmptyMap
  /\ storage = EmptyMap
  /\ timer = Nil
  /\ timerPc = "idle"
  /\ sweeperPc = "off"
  /\ shutdownChan = "open"
  /\ panicked = FALSE
  /\ pc = [h \in Handlers |-> "idle"]
  /\ loc = [h \in Handlers |-> NoLoc]
  /\ resp = NoResp
  /\ nreq = 0
  /\ gh = EmptyMap
  /\ writer = NoWriter
  /\ ClientIdle

\* variant: the keyring backend is taken whatever NewKeyringStorage returned
NewServer_Keyring ==
  /\ state = "Booting"
  /\ Caller("g1").pc \in {"ready", "failed"}
  /\ backend' = "keyring"
  /\ state' = "Starting"
  /\ UNCHANGED <<cvars, cast, now, socketFile, options, sessionID, secrets, storage, timer,
                 timerPc, sweeperPc, shutdownChan, panicked, pc, loc, resp, nreq, gh, writer>>

\* NewServer after NewKeyringStorage has returned: the keyring backend when
\* there was no error, the memory backend otherwise
NewServer ==
  /\ state = "Booting"
  /\ Caller("g1").pc \in {"ready", "failed"}
  /\ backend' = IF Caller("g1").pc = "ready" THEN "keyring" ELSE "memory"
  /\ state' = "Starting"
  /\ UNCHANGED <<cvars, cast, now, socketFile, options, sessionID, secrets, storage, timer,
                 timerPc, sweeperPc, shutdownChan, panicked, pc, loc, resp, nreq, gh, writer>>

BootNext ==
  \/ \E g \in Goroutines : OnceDo(g)
  \/ \E g \in Goroutines : OnceLock(g)
  \/ \E g \in Goroutines : initWorker(g)
  \/ WorkerStart
  \/ \E g \in Goroutines : initWorkerDone(g)
  \/ \E g \in Goroutines : NewKeyringStorage(g)
  \/ NewServer
  \/ Run
  \/ Tick
  \/ \E h \in Handlers, c \in cast.clients, name \in cast.names,
        secret \in cast.secrets, lt \in cast.lifetimes :
        StoreRequest(h, c, name, secret, lt.ttlSeconds, lt.absSeconds, c.nonce)
  \/ \E h \in Handlers : StoreBackend(h)
  \/ \E h \in Handlers : StoreMeta(h)
  \/ \E h \in Handlers, c \in cast.clients, name \in cast.names :
        GetRequest(h, c, name, c.nonce)
  \/ \E h \in Handlers : GetDelete(h)
  \/ \E h \in Handlers : GetFetch(h)

BootSpec == BootInit /\ [][BootNext]_vars

\* ======================================================================
\* Client.startServer, step by step
\* ======================================================================
StartInit == DaemonIdle /\ ClientIdle

Launch(i) == launch.of[i]

\* everything but the launches
unlaunched ==
  <<cast, now, state, socketFile, options, backend, sessionID, secrets, storage, timer,
    timerPc, sweeperPc, shutdownChan, panicked, pc, loc, resp, nreq, gh, writer, worker,
    scene, unixNow, sockPath, procs, facade, files, cresp, ncalls, origin>>

\* the instance goes on in startServer
Launched(i, rec) ==
  /\ launch' = [launch EXCEPT !.of[i] = rec]
  /\ UNCHANGED unlaunched

\* startServer returns; the deferred memFile.Close runs
Returns(rec, ret) ==
  [rec EXCEPT !.pc = "done", !.ret = ret,
              !.memFile = IF @ = "open" THEN "closed" ELSE @]

\* startServer up to the command of the first attempt: embedded.CreateMemfdServer
\* succeeds and the child is to run /proc/self/fd/3, or it fails
CreateMemfdServer(i, debug, created) ==
  /\ Launch(i).pc = "idle"
  /\ Launched(i, [Launch(i) EXCEPT !.debug = debug,
                                   !.memFile = IF created THEN "open" ELSE "nil",
                                   !.pc = IF created THEN "stdio" ELSE "extract"])

\* embedded.ExtractServerBinaryToTemp: a new file with the server image, or
\* an error that leaves no file behind
ExtractServerBinaryToTemp(i, extracted) ==
  /\ Launch(i).pc = "extract"
  /\ IF extracted
       THEN /\ launch' = [launch EXCEPT
                            !.made = @ + 1, !.tmp = @ \cup {launch.made + 1},
                            !.of[i] = [@ EXCEPT !.pc = "stdio", !.extracted = TRUE,
                                                !.tempServerPath = launch.made + 1]]
            /\ UNCHANGED unlaunched
       ELSE Launched(i, Returns([Launch(i) EXCEPT !.extracted = TRUE], "extract"))

\* the arguments, the environment and the standard streams of the command:
\* os.OpenFile(os.DevNull) unless Debug is set
OpenDevNull(i, opened) ==
  /\ Launch(i).pc = "stdio"
  /\ Launch(i).debug => opened
  /\ Launched(i, IF opened THEN [Launch(i) EXCEPT !.pc = "start"]
                 ELSE Returns(Launch(i), "devnull"))

\* the command of the attempt runs the memfd or the temporary file
Via(rec) == IF rec.tempServerPath # 0 THEN "temp" ELSE "memfd"

\* what is left on disk when the temporary file of the attempt is removed
Removed(tmp, rec) == tmp \ {rec.tempServerPath}

\* variant: every failure of the first start is retried with a temporary file
Start_RetryAlways(i, out) ==
  /\ Launch(i).pc = "start"
  /\ out = "ok" \/ Len(Launch(i).tried) < 2
  /\ LET rec == [Launch(i) EXCEPT !.tried = Append(@, [via |-> Via(Launch(i)), out |-> out])]
     IN  launch' =
           IF out = "ok"
             THEN [launch EXCEPT
                     !.of[i] = Returns([rec EXCEPT !.cleaner = IF rec.tempServerPath # 0
                                                                 THEN "sleeping" ELSE "none"],
                                       "ok")]
           ELSE [launch EXCEPT
                   !.tmp = Removed(@, rec),
                   !.of[i] = [rec EXCEPT !.pc = "extract", !.memFile = "closed"]]
  /\ UNCHANGED unlaunched

\* cmd.Start and what follows it: on success the unlink of the temporary file
\* is handed to a goroutine and startServer returns; on failure the temporary
\* file is removed and, when the failed command ran the memfd and the error
\* is a permission error, the memfd is closed and the temporary file is tried
Start(i, out) ==
  /\ Launch(i).pc = "start"
  /\ LET rec == [Launch(i) EXCEPT !.tried = Append(@, [via |-> Via(Launch(i)), out |-> out])]
     IN  launch' =
           IF out = "ok"
             THEN [launch EXCEPT
                     !.of[i] = Returns([rec EXCEPT !.cleaner = IF rec.tempServerPath # 0
                                                                 THEN "sleeping" ELSE "none"],
                                       "ok")]
           ELSE IF Len(rec.tried) = 1 /\ rec.memFile # "nil" /\ out = "permission"
             THEN [launch EXCEPT
                     !.tmp = Removed(@, rec),
                     !.of[i] = [rec EXCEPT !.pc = "extract", !.memFile = "closed"]]
           ELSE [launch EXCEPT !.tmp = Removed(@, rec), !.of[i] = Returns(rec, "start")]
  /\ UNCHANGED unlaunched

\* the goroutine started after a successful start from a temporary file:
\* sleep two seconds, remove the file
RemoveTemp(i) ==
  /\ Launch(i).cleaner = "sleeping"
  /\ launch' = [launch EXCEPT !.tmp = Removed(@, Launch(i)), !.of[i].cleaner = "done"]
  /\ UNCHANGED unlaunched

StartNext ==
  \/ \E i \in Instances, debug \in BOOLEAN, created \in BOOLEAN :
        CreateMemfdServer(i, debug, created)
  \/ \E i \in Instances, extracted \in BOOLEAN : ExtractServerBinaryToTemp(i, extracted)
  \/ \E i \in Instances, opened \in BOOLEAN : OpenDevNull(i, opened)
  \/ \E i \in Instances, out \in {"ok", "permission", "other"} : Start(i, out)
  \/ \E i \in Instances : RemoveTemp(i)

StartSpec == StartInit /\ [][StartNext]_vars

\* ======================================================================
\* Properties
\* ======================================================================
ExpiredKinds == {"expired-inactivity", "expired-absolute"}

\* the handler's Get was issued after the Store that installed the entry had
\* returned, by the executable and with the nonce of that Store
ByStorer(h) ==
  /\ loc[h].name \in DOMAIN gh
  /\ h \notin gh[loc[h].name].early
  /\ gh[loc[h].name].hash = loc[h].hash
  /\ gh[loc[h].name].nonce = loc[h].nonce

\* no other Get is between its two steps
OnlyGet(h) == \A o \in Handlers \ {h} : pc[o] \notin {"get_fetch", "get_delete"}

\* C1: a Get by the storing executable (same digest, same nonce), with no
\* other Get in progress, returns the plaintext only if, when it was issued,
\* no more than the inactivity TTL had elapsed since the last successful
\* Store or successful Get of the name and the absolute deadline had not
\* passed.
C1_PlaintextOnlyWhileFresh ==
  [][\A h \in Handlers :
       (GetFetch(h) /\ ByStorer(h) /\ OnlyGet(h) /\ resp'.kind = "ok")
         => /\ loc[h].t0 - gh[loc[h].name].at <= gh[loc[h].name].ttl
            /\ \A d \in gh[loc[h].name].dl : loc[h].t0 <= d]_vars

C3_RoundTrip ==
  [][\A h \in Handlers :
       (GetFetch(h) /\ ByStorer(h) /\ gh[loc[h].name].clean)
         => /\ resp'.kind = "ok"
            /\ resp'.secret = gh[loc[h].name].pt]_vars

\* C4: whenever no handler is between two of its steps (a sweeper pass is one
\* step), the names in the metadata table are the names that have a payload.
C4_Paired ==
  (state \in {"Serving", "Draining"} /\ AllIdle) => DOMAIN secrets = DOMAIN storage

\* the caller of a Store passes the credential, executable and size checks
Admissible(c, secret) ==
  /\ ~GetPeerAuthInfo(c).err
  /\ ~GetClientBinaryInfo(GetPeerAuthInfo(c).PID).err
  /\ Len(secret) <= options.MaxSecretSize

\* C5: a Store that passes the caller and size checks is rejected with
\* limit-exceeded exactly when the name is new and the table holds MaxSecrets
\* names (or more); a Store of a name that is in the table is let through at
\* any table size, and installing it leaves the set of names unchanged.
C5_LimitOnlyForNewNames ==
  [][/\ \A h \in Handlers, c \in cast.clients, name \in cast.names,
           secret \in cast.secrets, lt \in cast.lifetimes :
           (/\ StoreRequest(h, c, name, secret, lt.ttlSeconds, lt.absSeconds, c.nonce)
            /\ Admissible(c, secret))
             => /\ (resp'.kind = "limit-exceeded")
                     <=> (/\ name \notin DOMAIN secrets
                          /\ Cardinality(DOMAIN secrets) >= options.MaxSecrets)
                /\ name \in DOMAIN secrets => pc'[h] = "store_backend"
     /\ \A h \in Handlers :
           (StoreMeta(h) /\ loc[h].name \in DOMAIN secrets)
             => /\ resp'.kind = "ok"
                /\ DOMAIN secrets' = DOMAIN secrets]_vars

C5_Witness ==
  /\ resp.op = "Store"
  /\ resp.kind = "limit-exceeded"
  /\ resp.name \notin DOMAIN secrets
  /\ Cardinality(DOMAIN secrets) = options.MaxSecrets

\* C6: a Store answered size-exceeded or limit-exceeded leaves the metadata
\* table and the storage backend as they were.
C6_RejectedStoreChangesNothing ==
  [][(resp'.op = "Store" /\ resp'.kind \in {"size-exceeded", "limit-exceeded"})
       => (secrets' = secrets /\ storage' = storage)]_vars

C6_Witness ==
  /\ resp.op = "Store"
  /\ resp.kind = "size-exceeded"
  /\ resp.name \in DOMAIN secrets
  /\ resp.name \in DOMAIN storage

\* C7: the absolute deadline of an entry is moved by nothing but a Store of
\* the name (a Get only moves LastAccessed); a Get issued after the deadline
\* never goes on to fetch the payload but evicts the entry and reports
\* expiry, however many Gets succeeded before.
C7_DeadlineIsFinal ==
  [][/\ \A n \in (DOMAIN secrets) \cap (DOMAIN secrets') :
           \/ secrets'[n].AbsoluteExpiresAt = secrets[n].AbsoluteExpiresAt
           \/ \E h \in Handlers : StoreMeta(h) /\ loc[h].name = n
     /\ \A h \in Handlers, c \in cast.clients, name \in cast.names :
           (/\ GetRequest(h, c, name, c.nonce)
            /\ ~GetPeerAuthInfo(c).err
            /\ ~GetClientBinaryInfo(GetPeerAuthInfo(c).PID).err
            /\ name \in DOMAIN secrets
            /\ \E d \in secrets[name].AbsoluteExpiresAt : now > d)
             => /\ pc'[h] = "get_delete"
                /\ loc'[h].kind \in ExpiredKinds
                /\ ~InactivityExpired(secrets[name], now)
                     => loc'[h].kind = "expired-absolute"
                /\ name \notin DOMAIN secrets'
     /\ \A h \in Handlers :
           (GetDelete(h) /\ loc[h].kind = "expired-absolute")
             => (resp'.kind = "expired-absolute" /\ resp'.secret = <<>>)]_vars

C7_Witness ==
  \E h \in Handlers :
    /\ pc[h] = "get_delete"
    /\ loc[h].kind = "expired-absolute"
    /\ loc[h].reads = 1

\* C8: a Get that finds the entry expired removes the metadata entry, then
\* the payload, and returns the expiry error it found; a Get of a name that
\* has no metadata entry returns not-found.
C8_ExpiredGetEvicts ==
  [][/\ \A h \in Handlers, c \in cast.clients, name \in cast.names :
           (/\ GetRequest(h, c, name, c.nonce)
            /\ ~GetPeerAuthInfo(c).err
            /\ ~GetClientBinaryInfo(GetPeerAuthInfo(c).PID).err)
             => /\ (name \in DOMAIN secrets /\ Expired(secrets[name], now))
                     => (pc'[h] = "get_delete" /\ name \notin DOMAIN secrets')
                /\ name \notin DOMAIN secrets
                     => (resp'.op = "Get" /\ resp'.kind = "not-found")
     /\ \A h \in Handlers :
           GetDelete(h)
             => /\ loc[h].name \notin DOMAIN storage'
                /\ resp'.op = "Get"
                /\ resp'.kind = loc[h].kind
                /\ resp'.kind \in ExpiredKinds]_vars

C8_Witness ==
  /\ resp.op = "Get"
  /\ resp.kind \in ExpiredKinds
  /\ resp.name \notin DOMAIN secrets
  /\ resp.name \notin DOMAIN storage
  /\ gh = EmptyMap
  /\ nreq >= 2

\* the names a handler is still working on: payload written and metadata not
\* yet installed, or metadata removed and payload not yet deleted
InFlight == {loc[h].name : h \in {x \in Handlers : pc[x] \in {"store_meta", "get_delete"}}}

AllExpired == secrets # EmptyMap /\ \A n \in DOMAIN secrets : Expired(secrets[n], now)

C10_Steps(signalDrains) ==
  /\ (state = "Serving" /\ TimerStop) => state' = "Draining"
  /\ (state = "Serving" /\ Sweep /\ secrets' = EmptyMap) => state' = "Draining"
  /\ IF signalDrains
       THEN (state = "Serving" /\ Signal) => state' = "Draining"
       ELSE Signal => (state' = "Killed" /\ socketFile' = socketFile)
  /\ state = "Draining" => (nreq' = nreq /\ state' # "Serving")
  /\ (state # "Stopped" /\ state' = "Stopped")
       => (state = "Draining" /\ AllIdle /\ ~socketFile')

\* C10 as stated: the inactivity timer, a sweep that empties the table and a
\* termination signal each take the daemon from Serving to Draining.
C10_Original == [][C10_Steps(TRUE)]_vars

\* C10 amended: the inactivity timer and a sweep that empties the table take
\* the daemon from Serving to Draining; a termination signal ends the process
\* at once and leaves the socket path in place.  In Draining no new RPC is
\* accepted, the daemon stops only when no RPC is outstanding and with the
\* socket path unlinked, and unless a signal ends it first it does stop.
C10_Shutdown ==
  /\ [][C10_Steps(FALSE)]_vars
  /\ (state = "Draining") ~> (state \in {"Stopped", "Killed"})

C10_Witness ==
  /\ state = "Stopped"
  /\ ~socketFile
  /\ ~panicked
  /\ nreq >= 1

\* an RPC arrives: the first step of a Store, Get or Ping handler
RpcArrives == nreq' = nreq + 1

\* the inactivity timer is due
TimerDue == timer.armed /\ now >= timer.at

\* C11: with InactivityTimeout > 0 every Store, Get and Ping, successful or
\* not, re-arms the one timer to InactivityTimeout from now, and nothing else
\* moves it; the timer's callback starts only when the timer is due, that is
\* when no RPC has arrived for InactivityTimeout since the last RPC or since
\* the start, and only the callback's graceful stop follows; a timer that is
\* due does fire unless an RPC re-arms it first.  With InactivityTimeout = 0
\* there is no timer and the callback never runs.
C11_InactivityTimer ==
  /\ [][/\ (RpcArrives /\ options.InactivityTimeout > 0)
             => (/\ timer'.exists
                 /\ timer'.armed
                 /\ timer'.at = now + options.InactivityTimeout)
        /\ (/\ state \in {"Serving", "Draining"}
            /\ state' \in {"Serving", "Draining"}
            /\ timer'.at # timer.at) => RpcArrives
        /\ (state = "Starting" /\ options.InactivityTimeout > 0)
             => (timer'.armed /\ timer'.at = now + options.InactivityTimeout)
        /\ (timerPc # "fired" /\ timerPc' = "fired")
             => (TimerDue /\ options.InactivityTimeout > 0)
        /\ (timerPc # "stopping" /\ timerPc' = "stopping")
             => (timerPc = "fired" /\ state' = "Draining" /\ ~socketFile')
        /\ options.InactivityTimeout = 0
             => (~timer'.exists /\ ~timer'.armed /\ timerPc' \in {"idle", "done"})]_vars
  /\ (state = "Serving" /\ TimerDue)
       ~> (state # "Serving" \/ (timer.armed /\ now < timer.at))

C11_Witness ==
  /\ state = "Draining"
  /\ timerPc = "stopping"
  /\ nreq >= 1
  /\ timer.at > options.InactivityTimeout
  /\ now >= timer.at

\* the connection carries no peer record, or a PID (0 after a failed probe)
\* that resolves to no readable executable
NoIdentity(c) == ~c.auth \/ c.PID \notin {1, 2}

\* C12: a Store or Get on a connection without a usable peer identity fails
\* in its first step with a credential or executable error and leaves the
\* metadata table (every LastAccessed included) and the storage backend as
\* they were.
C12_NoIdentityNoEffect ==
  [][\A h \in Handlers, c \in cast.clients, name \in cast.names :
       (/\ NoIdentity(c)
        /\ \/ GetRequest(h, c, name, c.nonce)
           \/ \E secret \in cast.secrets, lt \in cast.lifetimes :
                StoreRequest(h, c, name, secret, lt.ttlSeconds, lt.absSeconds, c.nonce))
         => /\ resp'.kind \in {"credentials", "binary"}
            /\ resp'.secret = <<>>
            /\ pc'[h] = "idle"
            /\ secrets' = secrets
            /\ storage' = storage]_vars

C12_Witness ==
  /\ resp.op = "Get"
  /\ resp.kind \in {"credentials", "binary"}
  /\ resp.name \in DOMAIN secrets
  /\ resp.name \in DOMAIN storage
  /\ Expired(secrets[resp.name], now)

\* ----------------------------------------------------------------------
\* Properties of the client side
\* ----------------------------------------------------------------------
Nonces == {"n1", "n2"}

\* where a Get of the instance looks the name up
Place(i, name) ==
  IF useFallback(facade[i], scene.opts[i]) THEN <<"file", name>>
  ELSE IF facade[i].client THEN <<Target(i), name>>
  ELSE <<"none", name>>

\* the secret lying at the place was stored under another client nonce
OtherNonce(i, name) ==
  /\ Place(i, name) \in DOMAIN origin
  /\ origin[Place(i, name)].nonce # scene.opts[i].Nonce

\* C13: a Get that supplies another client nonce than the Store of the secret
\* did (same executable, same name) never returns the secret: the daemon
\* answers with a failure (decryption under the re-derived key fails, or the
\* entry has expired), the file store fails to decrypt (or finds the file
\* expired); both key derivations give equal keys for equal inputs and
\* different keys for a different nonce or a different name.
C13_NonceBinds ==
  /\ \A n1 \in Nonces, n2 \in Nonces, k1 \in Names, k2 \in Names :
       /\ deriveKey(n1, GetCurrentBinaryHash, k1) = deriveKey(n2, GetCurrentBinaryHash, k2)
            <=> (n1 = n2 /\ k1 = k2)
       /\ \A d \in Daemons, salt \in Salts :
            DeriveKey(GetCurrentBinaryHash, n1, SessionIDs[d], k1, salt)
              = DeriveKey(GetCurrentBinaryHash, n2, SessionIDs[d], k2, salt)
            <=> (n1 = n2 /\ k1 = k2)
  /\ [][(/\ ncalls' = ncalls + 1
         /\ cresp'.op = "Get"
         /\ OtherNonce(cresp'.who, cresp'.name))
          => /\ cresp'.secret = <<>>
             /\ cresp'.via = "daemon"
                  => cresp'.kind \in {"crypto", "expired-inactivity", "expired-absolute"}
             /\ cresp'.via = "file" => cresp'.kind \in {"decrypt", "expired"}]_vars

C13_Witness ==
  /\ cresp.op = "Get"
  /\ cresp.via = "daemon"
  /\ cresp.kind = "crypto"
  /\ \E d \in Daemons :
       /\ <<d, cresp.name>> \in DOMAIN origin
       /\ origin[<<d, cresp.name>>].nonce # scene.opts[cresp.who].Nonce
       /\ facade[cresp.who].conn = d

\* the same on the file store
C13_FileCase ==
  /\ cresp.op = "Get"
  /\ cresp.via = "file"
  /\ cresp.kind = "decrypt"
  /\ <<"file", cresp.name>> \in DOMAIN origin
  /\ origin[<<"file", cresp.name>>].nonce # scene.opts[cresp.who].Nonce

\* a facade call (Store, Get or Delete) returns
FacadeCall == ncalls' = ncalls + 1

\* Connect of the instance has ended with the launcher failing: startServer
\* returned an error or none of the checks found a server
LauncherFailed(i) == facade[i].pc = "failed"

\* C14: a Store, Get or Delete goes to the file store exactly when NoServer is
\* set or the launcher has failed before on this instance (with fallback
\* allowed); every call after a failed launch goes to the file store.
C14_Routing ==
  [][\A i \in Instances :
       (/\ FacadeCall
        /\ cresp'.who = i
        /\ ~(LauncherFailed(i) /\ scene.opts[i].NoFallbackMode))
         => /\ useFallback(facade[i], scene.opts[i])
                 <=> (scene.opts[i].NoServer \/ LauncherFailed(i))
            /\ cresp'.via = "file" <=> useFallback(facade[i], scene.opts[i])]_vars

\* C15: when Connect ends with the launcher failing, then with fallback
\* allowed Connect returns no error and the facade uses the file store from
\* then on, and with NoFallbackMode Connect returns the launch error.
C15_LaunchFailure ==
  [][\A i \in Instances :
       (~LauncherFailed(i) /\ LauncherFailed(i)')
         => IF scene.opts[i].NoFallbackMode
              THEN facade'[i].err \in {"start", "timeout"}
              ELSE /\ facade'[i].err = "ok"
                   /\ useFallback(facade'[i], scene.opts[i])]_vars

\* a connection to SocketPath can be opened: something listens on it
Accepts == sockPath = "foreign" \/ (sockPath \in Daemons /\ procs[sockPath].st = "listening")

\* the peer behind SocketPath answers Ping: it is a daemon that serves
AnswersPing == sockPath \in Daemons /\ procs[sockPath].st = "listening"

\* Connect of the instance takes its first step
ConnectStarts(i) == facade[i].pc = "new" /\ facade'[i].pc # "new"

\* Connect of the instance reuses the endpoint: it dials without spawning
Reuses(i) == ConnectStarts(i) /\ facade'[i].pc = "connected" /\ procs' = procs

\* C16 as stated: the endpoint is reused only if the connection succeeds and
\* the peer answers Ping.
C16_Original ==
  [][\A i \in Instances : Reuses(i) => (Accepts /\ AnswersPing)]_vars

\* C16: Connect reuses the endpoint, and spawns nothing, exactly when a
\* connection to SocketPath can be opened; no Ping is sent, so a listener
\* that never answers Ping is reused as well.
C16_ReuseIffAccepts ==
  [][\A i \in Instances : ConnectStarts(i) => (Reuses(i) <=> Accepts)]_vars

C16_Witness ==
  /\ sockPath = "foreign"
  /\ facade["a"].pc = "connected"
  /\ facade["a"].checks = 0
  /\ \A d \in Daemons : procs[d].st = "none"

\* a running daemon that holds secrets
HoldsSecrets(d) == procs[d].st = "listening" /\ procs[d].tbl # EmptyMap

\* a daemon holds the name, stored under the nonce of the instance and not expired
StoredFor(i, name) ==
  \E d \in Daemons :
    /\ <<d, name>> \in DOMAIN origin
    /\ origin[<<d, name>>].nonce = scene.opts[i].Nonce
    /\ ~Expired(procs[d].tbl[name].meta, unixNow)

\* C17: clients of one executable share one daemon: every running daemon
\* that holds secrets is the one listening at SocketPath, and a Get through
\* a connected instance returns the secret another instance stored.
C17_OneDaemon ==
  /\ [](\A d \in Daemons : HoldsSecrets(d) => sockPath = d)
  /\ [][\A i \in Instances :
          (/\ FacadeCall
           /\ cresp'.who = i
           /\ cresp'.op = "Get"
           /\ facade[i].pc = "connected"
           /\ StoredFor(i, cresp'.name))
            => /\ cresp'.kind = "ok"
               /\ \E d \in Daemons :
                    /\ <<d, cresp'.name>> \in DOMAIN origin
                    /\ cresp'.secret = origin[<<d, cresp'.name>>].pt]_vars

\* the instance is inside the wait loop of Connect, its daemon spawned
Polling(i) == facade[i].pc = "polling"

\* C18: after the spawn Connect makes at most ten checks, one per round; it
\* dials at the first check that finds a server, returns the timeout error
\* when the tenth check fails too, and so always returns.
C18_TenChecks ==
  /\ [](\A i \in Instances :
          /\ facade[i].checks <= 10
          /\ Polling(i) => facade[i].checks < 10)
  /\ [][\A i \in Instances :
          (Polling(i) /\ facade'[i] # facade[i])
            => /\ facade'[i].checks = facade[i].checks + 1
               /\ Accepts => (facade'[i].pc = "connected" /\ facade'[i].err = "ok")
               /\ (~Accepts /\ facade'[i].checks = 10)
                    => (facade'[i].pc = "failed" /\ facade'[i].err = "timeout")
               /\ (~Accepts /\ facade'[i].checks < 10) => Polling(i)']_vars
  /\ \A i \in Instances : Polling(i) ~> (facade[i].pc \in {"connected", "failed"})

C18_Witness ==
  /\ facade["a"].pc = "failed" /\ facade["a"].checks = 10 /\ facade["a"].err = "timeout"
  /\ facade["b"].pc = "connected" /\ facade["b"].checks \in 2..10

\* the file store holds a secret for the name, put there by a Store with the
\* nonce of the instance, whose expiry lies in the future
FileStoredFor(i, name) ==
  /\ <<"file", name>> \in DOMAIN origin
  /\ origin[<<"file", name>>].nonce = scene.opts[i].Nonce
  /\ unixNow < origin[<<"file", name>>].expiry

\* a Get of the instance on the file store returns
FileGet(i) == FacadeCall /\ cresp'.who = i /\ cresp'.op = "Get" /\ cresp'.via = "file"

\* C19: on the file store a Get returns exactly the secret the last Store of
\* the name wrote, as long as its expiry lies in the future: for the empty
\* secret too, with other names stored beside it, and also when the Get is
\* made by another instance of the executable with the same nonce.
C19_FileRoundTrip ==
  [][\A i \in Instances :
       (FileGet(i) /\ FileStoredFor(i, cresp'.name))
         => /\ cresp'.kind = "ok"
            /\ cresp'.secret = origin[<<"file", cresp'.name>>].pt]_vars

C19_Witness ==
  /\ cresp.op = "Get" /\ cresp.via = "file" /\ cresp.kind = "ok"
  /\ cresp.who = "b"
  /\ cresp.secret = <<>>
  /\ {<<"file", n>> : n \in Names} \subseteq DOMAIN origin
  /\ origin[<<"file", cresp.name>>].by = "a"
  /\ \A n \in Names : unixNow < origin[<<"file", n>>].expiry

\* the files of the executable that belong to the name
FilesOf(fs, name) ==
  {p \in DOMAIN fs : HasPrefix(p, getFallbackFilePath(GetCurrentBinaryHash, name))}

\* the Store that wrote the secret of the name replaced an earlier one
Overwritten(name) ==
  /\ <<"file", name>> \in DOMAIN origin
  /\ origin[<<"file", name>>].prev # {}

\* C20: a Store on the file store for a name that has a file replaces it:
\* there is exactly one file for the name afterwards (none if the new expiry
\* has passed already), never two, and a Get then returns the second value.
\* The Store is accepted unless the client's DefaultTTL is negative.
C20_Overwrite ==
  /\ [](\A name \in Names : Cardinality(FilesOf(files, name)) <= 1)
  /\ [][(/\ FacadeCall
         /\ cresp'.op = "Store" /\ cresp'.via = "file"
         /\ FilesOf(files, cresp'.name) # {})
          => /\ scene.opts[cresp'.who].DefaultTTL >= 0 => cresp'.kind = "ok"
             /\ cresp'.kind = "ok"
                  => /\ origin'[<<"file", cresp'.name>>].prev # {}
                     /\ unixNow <= origin'[<<"file", cresp'.name>>].expiry
                          => Cardinality(FilesOf(files', cresp'.name)) = 1]_vars
  /\ [][\A i \in Instances :
          (FileGet(i) /\ FileStoredFor(i, cresp'.name) /\ Overwritten(cresp'.name))
            => /\ cresp'.kind = "ok"
               /\ cresp'.secret = origin[<<"file", cresp'.name>>].pt
               /\ Cardinality(FilesOf(files', cresp'.name)) = 1]_vars

C20_Witness ==
  /\ cresp.op = "Get" /\ cresp.via = "file" /\ cresp.kind = "ok"
  /\ Overwritten(cresp.name)
  /\ cresp.secret = <<2>>
  /\ origin[<<"file", cresp.name>>].prev = {<<1>>}
  /\ Cardinality(FilesOf(files, cresp.name)) = 1

\* the path of the file of the name
PathOf(name) == getFallbackFilePath(GetCurrentBinaryHash, name)

\* a Get on the file store returns
AnyFileGet == FacadeCall /\ cresp'.op = "Get" /\ cresp'.via = "file"

\* C21: a read of a file whose expiry has passed returns 'expired' and no
\* plaintext and removes the file; a read of a name without a file returns
\* not-found, so the read after an expired one does; a read not later than the
\* expiry returns the plaintext (to a reader with the nonce of the Store) and
\* leaves the file as it is.
C21_ExpiredRead ==
  [][AnyFileGet =>
       LET name == cresp'.name
           i == cresp'.who
       IN  IF PathOf(name) \notin DOMAIN files
             THEN cresp'.kind = "not-found" /\ cresp'.secret = <<>> /\ files' = files
           ELSE IF unixNow > fileExpiry(files[PathOf(name)])
             THEN /\ cresp'.kind = "expired"
                  /\ cresp'.secret = <<>>
                  /\ PathOf(name) \notin DOMAIN files'
           ELSE /\ PathOf(name) \in DOMAIN files'
                /\ files'[PathOf(name)] = files[PathOf(name)]
                /\ origin[<<"file", name>>].nonce = scene.opts[i].Nonce
                     => /\ cresp'.kind = "ok"
                        /\ cresp'.secret = origin[<<"file", name>>].pt]_vars

C21_Witness ==
  /\ cresp.op = "Get" /\ cresp.via = "file" /\ cresp.kind = "expired"
  /\ PathOf(cresp.name) \notin DOMAIN files
  /\ <<"file", cresp.name>> \in DOMAIN origin
  /\ origin[<<"file", cresp.name>>].expiry < unixNow
  /\ origin[<<"file", cresp.name>>].pt # <<>>

\* the first n hexadecimal characters of the digest of x
HexPrefix(x, n) == SubSeq(Hex(Digest(x)), 1, n)

\* burnafter-<X>-<Y> with X the first sixteen characters of the executable
\* digest and Y the first sixteen characters of the digest of the name
SixteenSixteen ==
  [name \in Names |->
     <<"burnafter-">> \o HexPrefix(GetCurrentBinaryHash, 16) \o <<"-">> \o HexPrefix(name, 16)]

\* the same with Y the first thirty-two characters
SixteenThirtyTwo ==
  [name \in Names |->
     <<"burnafter-">> \o HexPrefix(GetCurrentBinaryHash, 16) \o <<"-">> \o HexPrefix(name, 32)]

\* a Store on the file store returns without error, its expiry not passed
FileStored ==
  /\ FacadeCall /\ cresp'.op = "Store" /\ cresp'.via = "file" /\ cresp'.kind = "ok"
  /\ unixNow <= origin'[<<"file", cresp'.name>>].expiry

\* C22 as stated: the file of a secret is burnafter-<X>-<Y>, X and Y sixteen
\* hexadecimal characters each.
C22_Original ==
  /\ [](\A p \in DOMAIN files : \E name \in Names : p = SixteenSixteen[name])
  /\ [][FileStored => SixteenSixteen[cresp'.name] \in DOMAIN files']_vars

\* C22: the file of a secret is burnafter-<X>-<Y> in the temp directory,
\* without extension, X the first sixteen hexadecimal characters of the
\* executable digest and Y the first thirty-two hexadecimal characters (the
\* first sixteen bytes) of SHA-256(name), whatever the nonce and the instance
\* of the Store.
C22_FilePath ==
  /\ [](\A p \in DOMAIN files :
          /\ \E name \in Names : p = SixteenThirtyTwo[name]
          /\ \A k \in 1..Len(p) : p[k] # ".")
  /\ [][FileStored => SixteenThirtyTwo[cresp'.name] \in DOMAIN files']_vars

C22_Witness ==
  /\ cresp.op = "Get" /\ cresp.via = "file" /\ cresp.kind = "decrypt"
  /\ cresp.who = "a"
  /\ origin[<<"file", cresp.name>>].by = "b"
  /\ scene.opts["a"].Nonce # scene.opts["b"].Nonce
  /\ SixteenThirtyTwo[cresp.name] \in DOMAIN files

\* the name whose file lies at the path
NameAt(p) == CHOOSE name \in Names : PathOf(name) = p

\* the eight bytes of a count below 256, written out
EightBytes(e) == [k \in 1..8 |-> IF k = 8 THEN e ELSE 0]

\* the Store on the file store is accepted
StoreAccepted ==
  FacadeCall /\ cresp'.op = "Store" /\ cresp'.via = "file" /\ cresp'.kind = "ok"

\* the Store on the file store is refused
StoreRefused ==
  FacadeCall /\ cresp'.op = "Store" /\ cresp'.via = "file" /\ cresp'.kind # "ok"

\* C23: every file of the file store starts with the byte 1, followed by the
\* twelve bytes of the GCM nonce the secret was sealed with, the expiry of the
\* Store as eight bytes with the high byte first, and the ciphertext, which is
\* sixteen bytes longer than the secret: 37 bytes or more. No Store is
\* accepted with an expiry below zero, and a refused Store changes no file.
C23_FileLayout ==
  /\ [](\A p \in DOMAIN files :
          LET file == files[p]
              stored == origin[<<"file", NameAt(p)>>]
          IN  /\ file.header[1] = 1
              /\ Len(file.header) = 21
              /\ SubSeq(file.header, 2, 13) = file.ciphertext.nonce
              /\ Len(file.ciphertext.nonce) = 12
              /\ stored.expiry >= 0 /\ stored.expiry < 256
              /\ SubSeq(file.header, 14, 21) = EightBytes(stored.expiry)
              /\ file.ciphertext.pt = stored.pt
              /\ file.size = 21 + Len(stored.pt) + 16
              /\ file.size >= 37)
  /\ [][StoreAccepted => origin'[<<"file", cresp'.name>>].expiry >= 0]_vars
  /\ [][StoreRefused
          => /\ unixNow + scene.opts[cresp'.who].DefaultTTL < 0
             /\ files' = files /\ origin' = origin]_vars

C23_Witness ==
  /\ cresp.op = "Store" /\ cresp.via = "file" /\ cresp.kind = "failed"
  /\ unixNow + scene.opts[cresp.who].DefaultTTL < 0
  /\ PathOf(cresp.name) \in DOMAIN files
  /\ files[PathOf(cresp.name)].size = 38
  /\ SubSeq(files[PathOf(cresp.name)].header, 14, 21) = <<0, 0, 0, 0, 0, 0, 0, 2>>

\* a Delete on the file store returns
FileDelete == FacadeCall /\ cresp'.op = "Delete" /\ cresp'.via = "file"

\* C24: a Delete on the file store removes the file of the name and succeeds;
\* from then on, until the name is stored again, a Get of the name returns
\* not-found. A Delete of a name that has no file returns not-found and
\* leaves every file as it is.
C24_Delete ==
  /\ [][FileDelete
          => IF PathOf(cresp'.name) \in DOMAIN files
               THEN /\ cresp'.kind = "ok"
                    /\ PathOf(cresp'.name) \notin DOMAIN files'
                    /\ <<"file", cresp'.name>> \notin DOMAIN origin'
               ELSE /\ cresp'.kind = "not-found"
                    /\ files' = files]_vars
  /\ [][(AnyFileGet /\ <<"file", cresp'.name>> \notin DOMAIN origin)
          => cresp'.kind = "not-found" /\ cresp'.secret = <<>>]_vars
  /\ [][(AnyFileGet /\ cresp.op = "Delete" /\ cresp.via = "file"
           /\ cresp.kind = "ok" /\ cresp.name = cresp'.name)
          => cresp'.kind = "not-found"]_vars

C24_Witness ==
  /\ cresp.op = "Delete" /\ cresp.via = "file" /\ cresp.kind = "ok"
  /\ PathOf(cresp.name) \notin DOMAIN files
  /\ <<"file", cresp.name>> \notin DOMAIN origin
  /\ \E other \in Names :
       /\ PathOf(other) \in DOMAIN files
       /\ unixNow <= fileExpiry(files[PathOf(other)])

\* a Store, Get or Delete on the file store returns
FileCall == FacadeCall /\ cresp'.via = "file"

\* the file belongs to this executable and its expiry has passed
ExpiredFile(fs, p) ==
  HasPrefix(p, FilePrefix(GetCurrentBinaryHash)) /\ unixNow > fileExpiry(fs[p])

\* C25: after every Store, Get and Delete on the file store no file of this
\* executable whose expiry has passed is left, and every other file, the one
\* of the call's own name apart, is as it was.
C25_Cleanup ==
  [][FileCall
       => /\ \A p \in DOMAIN files' : ~ExpiredFile(files', p)
          /\ \A p \in DOMAIN files :
               (p # PathOf(cresp'.name) /\ ~ExpiredFile(files, p))
                 => p \in DOMAIN files' /\ files'[p] = files[p]]_vars

\* the paths the secrets are stored at
FinalPaths == {PathOf(name) : name \in Names}

\* the temp files of the Stores that have not returned
TempPaths == {TempPath(i) : i \in {j \in Instances : facade[j].store.pc # "idle"}}

\* all of the bytes of the file are there, in the layout of encryptSecret
Complete(file) ==
  /\ file.size = BufLen(file)
  /\ file.size >= 37
  /\ fileVersion(file) = fallbackFileVersion
  /\ fileNonce(file) = file.ciphertext.nonce

\* a step of a Store that fails, or the removal that follows it
StoreFails(i) ==
  /\ facade[i].store.pc \notin {"idle", "cleanup"}
  /\ facade'[i].store.pc # facade[i].store.pc
  /\ facade'[i].store.pc \in {"remove", "idle"}

\* C26: the file at the path of a secret is at every instant absent or
\* complete with mode 0600, whatever step the Stores are at; the other files
\* in the directory are the temp files of the Stores that have not returned,
\* and they carry no permission beyond 0600; a Store that fails changes no
\* file at the path of a secret and has removed its temp file when it
\* returns.
C26_AtomicWrite ==
  /\ [](\A p \in DOMAIN files :
          IF p \in FinalPaths
            THEN Complete(files[p]) /\ files[p].mode = OwnerOnly
            ELSE p \in TempPaths /\ Clear(files[p].mode, OwnerOnly) = 0)
  /\ [][\A i \in Instances :
          StoreFails(i)
            => /\ \A p \in FinalPaths :
                    /\ p \in DOMAIN files' <=> p \in DOMAIN files
                    /\ p \in DOMAIN files => files'[p] = files[p]
               /\ facade'[i].store.pc = "idle"
                    => (cresp'.kind = "failed" /\ TempPath(i) \notin DOMAIN files')]_vars

C26_Witness ==
  /\ cresp.op = "Store" /\ cresp.kind = "failed" /\ cresp.who = "a"
  /\ facade["b"].store.pc = "chmod"
  /\ files[TempPath("b")].mode # OwnerOnly
  /\ TempPath("a") \notin DOMAIN files
  /\ PathOf(cresp.name) \in DOMAIN files
  /\ files[PathOf(cresp.name)].ciphertext.pt = <<1>>
  /\ facade["b"].store.secret = <<2>>

\* main has created the server
ServerCreated == sessionID = "" /\ sessionID' # ""

\* C27: when the daemon is started with a configuration argument, the server
\* is created with the value of the argument for every key the argument has
\* and with the default (DefaultTTL 4 hours, MaxSecrets 100, MaxSecretSize
\* 1 MiB) for every key it has not.
C27_Defaults ==
  /\ defaultCommon.DefaultTTL = 4 * 3600
  /\ defaultCommon.MaxSecrets = 100
  /\ defaultCommon.MaxSecretSize = 1024 * 1024
  /\ [][(ServerCreated /\ scene.args.given)
          => \A k \in OptionKeys :
               options'[k] = IF k \in DOMAIN scene.args.object
                               THEN scene.args.object[k]
                               ELSE defaultCommon[k]]_vars

\* a call on the two backends returns
BackendCall == nreq' = nreq + 1

\* C28: on either backend a store succeeds, a get returns the payload of the
\* last store of the id that no delete followed, with the same three fields,
\* and an error when there is none, and a delete succeeds whether the id is
\* bound or not; the two backends answer every call alike.
C28_Backends ==
  [][BackendCall
       => /\ resp'.memory = resp'.keyring
          /\ \A b \in Backends :
               CASE resp'.op = "store" -> ~resp'[b].err
                 [] resp'.op = "get" ->
                      IF resp'.id \in DOMAIN gh
                        THEN ~resp'[b].err /\ resp'[b].payload = {gh[resp'.id]}
                        ELSE resp'[b].err /\ resp'[b].payload = {}
                 [] OTHER -> ~resp'[b].err /\ resp'.id \notin DOMAIN storage'[b]]_vars

\* the worker answers a request
WorkerServes == worker'.served = worker.served + 1

\* C29: however the calls of NewKeyringStorage interleave, at most one worker
\* goroutine is ever started; a goroutine gets a KeyringStorage only when that
\* worker serves, and a get through any KeyringStorage returns the payload
\* that was stored last under the id, through whichever KeyringStorage.
C29_OneWorker ==
  /\ [](worker.started <= 1)
  /\ [](\A g \in Goroutines :
          Caller(g).pc = "ready" => (worker.started = 1 /\ worker.thread = "serving"))
  /\ [][(WorkerServes /\ worker'.last.op = "get")
          => IF worker'.last.id \in DOMAIN worker.bound
               THEN /\ ~worker'.last.err
                    /\ worker'.last.payload = {worker.bound[worker'.last.id].payload}
               ELSE worker'.last.err]_vars

C29_Witness ==
  /\ worker.started = 1
  /\ Caller("g1").path = "first" /\ Caller("g2").path = "waited"
  /\ worker.last.op = "get" /\ worker.last.by = "g2" /\ ~worker.last.err
  /\ worker.bound[worker.last.id].by = "g1"
  /\ worker.last.payload = {worker.bound[worker.last.id].payload}

\* C30: with Store handlers running in parallel, the number of names in
\* the metadata table never exceeds MaxSecrets.
C30_Limit == Cardinality(DOMAIN secrets) <= options.MaxSecrets

\* a Get of the name that has refreshed the entry and has not returned yet
GetPending(name) == \E o \in Handlers : pc'[o] = "get_fetch" /\ loc'[o].name = name

\* C31: the last_accessed of an entry changes only in a Store of the name or
\* in a Get of the name that returns success: when a Get returns
\* unauthorized, a storage error or a crypto error (and no other Get of the
\* name is under way), the entry's last_accessed is still the instant of the
\* last Store or successful Get of the name.
C31_LastAccessed ==
  [][(/\ resp'.op = "Get"
      /\ resp'.kind \in {"unauthorized", "storage", "crypto"}
      /\ resp'.name \in DOMAIN secrets' /\ resp'.name \in DOMAIN gh'
      /\ ~GetPending(resp'.name))
       => secrets'[resp'.name].LastAccessed = gh'[resp'.name].at]_vars

\* the Store handler computes the lifetime of the entry it is about to create
LifetimeComputed(h) == pc[h] = "store_backend" /\ pc'[h] = "store_meta"

\* C32: every metadata entry has an inactivity TTL of at least one second
\* and, when it has an absolute deadline, one that lies strictly after the
\* instant at which the Store computed it, whatever ttl_seconds,
\* absolute_expiration_seconds and default TTL the daemon was given.
C32_Lifetimes ==
  /\ [](\A n \in DOMAIN secrets : secrets[n].InactivityTTL >= 1)
  /\ [][\A h \in Handlers :
          LifetimeComputed(h)
            => /\ loc'[h].ttl >= 1
               /\ \A d \in loc'[h].absoluteExpiresAt : d > now]_vars

\* the goroutine has dispatched a request and has no answer yet
Blocked(g) == Caller(g).pc \in {"send", "await"}

\* C33: every keyring operation is executed by the one worker, one at a
\* time (the keyring changes only in a step of the worker, which has one
\* request in hand); every dispatched request receives exactly one reply; and
\* no goroutine that has dispatched a request waits forever while the worker
\* runs.
C33_Dispatch ==
  /\ [][worker'.ring # worker.ring
          => (WorkerServes /\ worker.handling \in Goroutines /\ worker.started = 1)]_vars
  /\ [](\A g \in Goroutines :
          worker.replies[g] <= 1 /\ Cardinality(worker.respChan[g]) <= 1)
  /\ [][\A g \in Goroutines :
          (Caller(g).pc = "await" /\ worker'.callers[g].pc = "ready")
            => /\ worker.replies[g] = 1
               /\ \A r \in worker.respChan[g] :
                    r.op = Caller(g).req.op /\ r.id = Caller(g).req.id]_vars
  /\ \A g \in Goroutines : Blocked(g) ~> (Caller(g).pc = "ready")

C33_Witness ==
  /\ Blocked("g1") /\ Caller("g2").pc = "await"
  /\ worker.handling = "g2"
  /\ worker.served >= 1

\* C34: when the initialisation of the keyring worker fails, no call of
\* NewKeyringStorage returns a KeyringStorage (each returns the error) and
\* NewServer takes the memory backend; when it succeeds NewServer takes the
\* keyring backend; and once NewServer has returned the backend never
\* changes, also when a backend operation fails.
C34_BackendChoice ==
  /\ [](worker.initDone = "failed" => \A g \in Goroutines : Caller(g).pc # "ready")
  /\ [](\A g \in Goroutines :
          Caller(g).pc = "failed" => (worker.err = "failed" /\ worker.reqChan = "closed"))
  /\ [](state # "Booting"
          => backend = IF worker.initDone = "failed" THEN "memory" ELSE "keyring")
  /\ [][state # "Booting" => backend' = backend]_vars

C34_Witness ==
  /\ backend = "memory" /\ state = "Serving"
  /\ \A g \in Goroutines : Caller(g).pc = "failed"
  /\ Caller("g2").path = "fast"
  /\ resp.op = "Get" /\ resp.kind = "ok"

\* startServer has failed in cmd.Start
StartFailed(rec) == rec.tried # <<>> /\ rec.tried[Len(rec.tried)].out # "ok"

\* the first command ran the memfd and failed with a permission error
Blocked1(rec) ==
  rec.tried # <<>> /\ rec.tried[1] = [via |-> "memfd", out |-> "permission"]

\* C35: startServer tries the memfd launch first; it takes the temporary
\* file if and only if the memfd could not be created or the start from the
\* memfd failed with a permission error; every other failed start returns
\* the error without a retry; there are at most two starts; the temporary
\* file is gone when a failed start returns, and after a successful start it
\* is removed by the goroutine that startServer leaves behind.
C35_Launch ==
  \A i \in Instances :
    LET rec == Launch(i)
    IN  /\ Len(rec.tried) <= 2
        /\ rec.tried # <<>> => (rec.tried[1].via = "memfd" <=> rec.memFile # "nil")
        /\ Len(rec.tried) = 2 => (Blocked1(rec) /\ rec.tried[2].via = "temp")
        /\ rec.pc = "done"
             => /\ rec.extracted <=> (rec.memFile = "nil" \/ Blocked1(rec))
                /\ rec.ret = "start" => StartFailed(rec)
                /\ (StartFailed(rec) /\ ~(Len(rec.tried) = 1 /\ Blocked1(rec)))
                     => rec.ret = "start"
                /\ rec.ret = "start" => rec.tempServerPath \notin launch.tmp
                /\ rec.ret = "ok"
                     => /\ rec.tried[Len(rec.tried)].out = "ok"
                        /\ rec.cleaner = "none" <=> rec.tempServerPath = 0
                        /\ rec.cleaner = "sleeping" => rec.tempServerPath \in launch.tmp
                        /\ rec.cleaner = "done" => rec.tempServerPath \notin launch.tmp

C35_Witness ==
  /\ Launch("a").ret = "ok" /\ Len(Launch("a").tried) = 2 /\ Launch("a").cleaner = "done"
  /\ Launch("b").ret = "start" /\ Launch("b").memFile = "nil"
  /\ launch.made = 2 /\ launch.tmp = {}

\* C36: the shutdown channel is closed at most once: no close finds the
\* channel already closed (which would panic), whether the inactivity timer
\* and an empty sweep meet or an RPC re-arms the timer after it has fired.
C36_CloseOnce == ~panicked

C37_Refused ==
  \E h \in Handlers :
    /\ pc[h] = "get_fetch"
    /\ loc[h].name \in DOMAIN gh /\ loc[h].name \in DOMAIN storage
    /\ gh[loc[h].name].clean
    /\ gh[loc[h].name].hash = "E2" /\ loc[h].hash = "E1"
    /\ storage[loc[h].name].ClientBinaryHash = "E2"

\* ======================================================================
\* One executable stores through a daemon and through the file store: the
\* first instance connects, the second runs with NoServer; every Store of a
\* scene carries the scene's one lifetime
\* ======================================================================
ModeLifetimes == {Lifetime(0, 2), Lifetime(1, 2), Lifetime(1, 3)}

ModeScenes ==
  {[instances |-> {"a", "b"}, connects |-> {"a"},
    opts |-> [i \in Instances |-> FacadeOptions("n1", i = "b", FALSE)],
    path0 |-> "none", spawn |-> {"ok"}, tick |-> TRUE,
    names |-> {"k1"}, secrets |-> {<<1>>}, lifetimes |-> {lt},
    gcm |-> {1}, calls |-> {"Store", "Get", "Delete"}]
     : lt \in ModeLifetimes}

ModesInit == NewClient(ModeScenes)

ModesSpec == ModesInit /\ [][ClientNext]_vars

\* the lifetime every Store of the scene is called with
SceneLifetime == CHOOSE lt \in scene.lifetimes : TRUE

\* the absolute deadline Server.Store gives a secret stored at time t
DaemonDeadline(lt, t) == AbsoluteExpiresAt(lt.absSeconds, t)

\* the absolute deadline the fallback Store gives a secret stored at time t
FallbackDeadline(lt, t) ==
  IF lt.absSeconds > 0
    THEN {expiryTime(lt.absSeconds, lt.ttlSeconds, SpawnedOptions.DefaultTTL, t)}
    ELSE {}

\* C38: for the same (ttl_seconds, absolute_expiration_seconds) the daemon
\* Store and the fallback Store give the secret the same absolute deadline:
\* the entry a daemon Store installs carries the deadline the fallback Store
\* computes for the arguments, and the file a fallback Store writes carries
\* the deadline the daemon computes for them.
C38_SameDeadline ==
  [][(ncalls' = ncalls + 1 /\ cresp'.op = "Store" /\ cresp'.kind = "ok")
       => /\ cresp'.via = "daemon"
               => \A d \in Daemons :
                    (procs'[d].tbl # procs[d].tbl)
                      => procs'[d].tbl[cresp'.name].meta.AbsoluteExpiresAt
                           = FallbackDeadline(SceneLifetime, unixNow)
          /\ cresp'.via = "file"
               => {origin'[<<"file", cresp'.name>>].expiry}
                    = DaemonDeadline(SceneLifetime, unixNow)]_vars

\* ======================================================================
\* The file store with the expiry handling step by step: decryptSecret and
\* cleanupExpiredFallbackFiles read a file, look at its expiry and then
\* remove the path, while the Stores of other processes rename files onto
\* it.  The directory holds the file of one name; facade[i].store is the
\* call the process is inside.
\* ======================================================================
ExpiryInit == WriteInit

\* the call of the process returns
CallReturn(i, op, kind, secret) ==
  /\ facade' = [facade EXCEPT ![i].store = NoStore]
  /\ cresp' = Call(i, op, facade[i].store.name, "file", kind, secret)
  /\ ncalls' = ncalls + 1
  /\ UNCHANGED <<dvars, scene, unixNow, sockPath, procs, origin>>

\* Client.Get, fallback branch, up to the expiry check of decryptSecret
GetRead(i, name) ==
  /\ i \in scene.instances
  /\ useFallback(facade[i], scene.opts[i])
  /\ facade[i].store.pc = "idle"
  /\ ncalls + Pending < MaxCalls
  /\ LET dec == decryptSecret(files, scene.opts[i].Nonce, name, unixNow)
     IN  IF dec.kind \in {"expired", "ok"}
           THEN /\ facade' = [facade EXCEPT ![i].store =
                                [pc |-> IF dec.kind = "ok" THEN "get_cleanup"
                                                           ELSE "get_remove",
                                 name |-> name, secret |-> dec.pt, expiry |-> 0, g |-> 0]]
                /\ cresp' = NoCall
                /\ UNCHANGED <<dvars, scene, unixNow, sockPath, procs, ncalls, origin>>
           ELSE /\ cresp' = Call(i, "Get", name, "file", dec.kind, <<>>)
                /\ ncalls' = ncalls + 1
                /\ UNCHANGED <<dvars, scene, unixNow, sockPath, procs, facade, origin>>
  /\ files' = files

\* decryptSecret on an expired file: os.Remove(filePath)
GetRemove(i) ==
  /\ facade[i].store.pc = "get_remove"
  /\ files' = MapDel(files, getFallbackFilePath(GetCurrentBinaryHash,
                                               facade[i].store.name))
  /\ CallReturn(i, "Get", "expired", <<>>)

\* the result of the call a cleanup pass ends
CleanupReturn(i) ==
  IF facade[i].store.pc \in {"cleanup", "cleanup_remove"}
    THEN CallReturn(i, "Store", "ok", <<>>)
    ELSE CallReturn(i, "Get", "ok", facade[i].store.secret)

\* cleanupExpiredFallbackFiles: the directory is listed, the file is read
\* and its expiry is compared with the clock
CleanupRead(i) ==
  /\ facade[i].store.pc \in {"cleanup", "get_cleanup"}
  /\ files' = files
  /\ IF cleanupExpiredFallbackFiles(files, unixNow) = files
       THEN CleanupReturn(i)
       ELSE /\ facade' = [facade EXCEPT ![i].store.pc =
                            IF @ = "cleanup" THEN "cleanup_remove"
                                             ELSE "get_cleanup_remove"]
            /\ cresp' = NoCall
            /\ UNCHANGED <<dvars, scene, unixNow, sockPath, procs, ncalls, origin>>

\* cleanupExpiredFallbackFiles: os.Remove(filePath) of the file found expired
CleanupRemove(i) ==
  /\ facade[i].store.pc \in {"cleanup_remove", "get_cleanup_remove"}
  /\ files' = MapDel(files, getFallbackFilePath(GetCurrentBinaryHash,
                                               facade[i].store.name))
  /\ CleanupReturn(i)

ExpiryNext ==
  \/ \E i \in Instances, name \in scene.names, secret \in scene.secrets,
        lt \in scene.lifetimes :
        StoreBegin(i, name, secret, lt.ttlSeconds, lt.absSeconds)
  \/ \E i \in Instances : StoreWrite(i)
  \/ \E i \in Instances : StoreClose(i)
  \/ \E i \in Instances : StoreChmod(i)
  \/ \E i \in Instances : StoreRename(i)
  \/ \E i \in Instances : StoreRemove(i)
  \/ \E i \in Instances : CleanupRead(i)
  \/ \E i \in Instances : CleanupRemove(i)
  \/ \E i \in Instances, name \in scene.names : GetRead(i, name)
  \/ \E i \in Instances : GetRemove(i)
  \/ ClientTick

ExpirySpec == ExpiryInit /\ [][ExpiryNext]_vars

\* C39: in fallback mode expiry handling never removes an unexpired secret
\* file: whenever the file of a name disappears (in decryptSecret or in a
\* cleanup pass, while Stores of other processes rename files into place),
\* the file that was at the path had expired.
C39_Survives ==
  [][\A name \in scene.names :
       LET filePath == getFallbackFilePath(GetCurrentBinaryHash, name)
       IN  (filePath \in DOMAIN files /\ filePath \notin DOMAIN files')
             => unixNow > fileExpiry(files[filePath])]_vars

\* the process takes a step of a Get on the file store
GetSteps(i) ==
  \/ facade[i].store.pc \in {"get_remove", "get_cleanup", "get_cleanup_remove"}
       /\ facade'[i].store # facade[i].store
  \/ facade[i].store.pc = "idle"
       /\ facade'[i].store.pc \in {"get_remove", "get_cleanup"}
  \/ facade[i].store.pc = "idle" /\ cresp'.op = "Get" /\ cresp'.who = i

\* the files of secrets that have not expired
Unexpired(fs, t) ==
  {q \in DOMAIN fs : /\ HasPrefix(q, FilePrefix(GetCurrentBinaryHash))
                     /\ ~(t > fileExpiry(fs[q]))}

\* C40: in fallback mode a Get never modifies the file of an unexpired
\* secret: every step of a Get leaves each unexpired file in place with the
\* bytes and the expiry the Store wrote, and a Get that returns the secret
\* does so no later than the expiry computed at Store.
C40_ReadOnly ==
  /\ [][\A i \in Instances :
          GetSteps(i)
            => \A q \in Unexpired(files, unixNow) :
                 q \in DOMAIN files' /\ files'[q] = files[q]]_vars
  /\ [][\A i \in Instances :
          (GetSteps(i) /\ facade'[i].store.pc = "get_cleanup")
            => LET q == getFallbackFilePath(GetCurrentBinaryHash, facade'[i].store.name)
               IN  /\ fileExpiry(files[q]) = origin[<<"file", facade'[i].store.name>>].expiry
                   /\ unixNow <= origin[<<"file", facade'[i].store.name>>].expiry]_vars

====
